---------------------------- MODULE Spec2Model ----------------------------
(***************************************************************************)
(* Model of the Intelligent Text Tagger: feedback scoring, weight learning *)
(* tag generation and the pipeline that runs them in cycles                *)
(* (src/src/collect_feedback.py, src/src/learn_from_feedback.py,           *)
(* src/src/generate_tags.py, src/pipeline.py, src/config.py).              *)
(*                                                                         *)
(* Strings are sequences of one-character strings.  Floating point scores  *)
(* are fixed-point integers: a score s stands for s / ScoreScale, a signal *)
(* weight w for w / 10, and a combined score c for c / (10 * ScoreScale).  *)
(* An approval rate is the exact fraction [num, den].                      *)
(***************************************************************************)
EXTENDS Integers, Sequences, FiniteSets, TLC

VARIABLES
    pc,               \* which call has been made on the current inputs
    tag,              \* argument `tag` of the two scorers
    raw_text,         \* argument `raw_text` of calculate_position_score
    cleaned_text,     \* argument `cleaned_text` of calculate_frequency_score
    pos_score,        \* value returned by calculate_position_score
    freq_score,       \* value returned by calculate_frequency_score
    tags_data,        \* argument `tags_data` of simulate_feedback (tags.json)
    docs_texts,       \* argument `docs_texts` of simulate_feedback
    feedback_results, \* value returned by simulate_feedback
    feedback_data,    \* argument `feedback_data` of compute_tag_stats
    tag_rates,        \* value returned by compute_tag_stats
    tag_weights,      \* value returned by derive_tag_weights
    learn_calls,      \* calls of compute_tag_stats made so far
    output_dir,       \* argument `output_dir` of run_pipeline
    top_k,            \* argument `top_k` of run_pipeline and generate_tags
    documents,        \* the documents folder: filename -> content
    feature_names,    \* vocabulary the TfidfVectorizer returns
    tfidf_matrix,     \* scores the TfidfVectorizer returns, one row per file
    files,            \* the files under the working directory
    loaded_weights,   \* `tag_weights` of generate_tags (load_tag_weights())
    tags_output,      \* value returned by generate_tags
    run_status,       \* "status" of the value returned by run_pipeline
    cycles,           \* calls of run_pipeline started so far
    writer_pc,        \* position of a save_weights call
    writer_pending,   \* text of that call not yet written to the file
    reader_pc,        \* position of a load_tag_weights call
    reader_result,    \* value returned by that call
    replaced_table,   \* history: the table on disk when save_weights began
    call_log,         \* history: the calls of the four pure functions
    written           \* history: the files this run_pipeline call has written

scorerVars == <<tag, raw_text, cleaned_text, pos_score, freq_score>>
feedbackVars == <<tags_data, docs_texts, feedback_results>>
learnVars == <<feedback_data, tag_rates, tag_weights, learn_calls>>

pipelineVars ==
    <<output_dir, top_k, documents, feature_names, tfidf_matrix, files,
      loaded_weights, tags_output, run_status, cycles>>
fileVars ==
    <<writer_pc, writer_pending, reader_pc, reader_result, replaced_table>>

vars ==
    <<pc, scorerVars, feedbackVars, learnVars, pipelineVars, fileVars,
      call_log, written>>

\* the value of the variables a specification does not use
ScorerIdle ==
    /\ tag = <<>>
    /\ raw_text = <<>>
    /\ cleaned_text = <<>>
    /\ pos_score = 0
    /\ freq_score = 0

FeedbackIdle ==
    /\ tags_data = <<>>
    /\ docs_texts = <<>>
    /\ feedback_results = <<>>

LearnIdle ==
    /\ feedback_data = <<>>
    /\ tag_rates = <<>>
    /\ tag_weights = <<>>
    /\ learn_calls = 0

PipelineIdle ==
    /\ output_dir = ""
    /\ top_k = 0
    /\ documents = <<>>
    /\ feature_names = <<>>
    /\ tfidf_matrix = <<>>
    /\ files = <<>>
    /\ loaded_weights = <<>>
    /\ tags_output = <<>>
    /\ run_status = ""
    /\ cycles = 0

FileIdle ==
    /\ writer_pc = "idle"
    /\ writer_pending = <<>>
    /\ reader_pc = "idle"
    /\ reader_result = <<>>
    /\ replaced_table = <<>>

---------------------------------------------------------------------------
(* Bounds of the model                                                     *)

\* most filler lines put in front of the lines under test
MaxPad == 11
\* longest cleaned text given to the frequency scorer
MaxTextLen == 10
\* most entries (documents and tag records together) of a tags.json
MaxTagEntries == 3
\* most entries (documents and records together) of a feedback.json
MaxFeedbackEntries == 4
\* most calls of compute_tag_stats in a run
MaxLearnCalls == 2
\* most run_pipeline cycles in a behaviour
MaxCycles == 3
\* largest top_k given to run_pipeline
MaxTopK == 2
\* most calls of the pure functions in a behaviour
MaxCalls == 3

---------------------------------------------------------------------------
(* Python str operations                                                   *)

Min(a, b) == IF a <= b THEN a ELSE b

Rep(c, n) == [i \in 1..n |-> c]

UpperChars == {"A", "P", "I", "X"}
LowerChars == {"a", "b", "p", "i", "x", "t", "h", "e", "r", "s"}
Whitespace == {" ", "\n"}

\* str.lower() on one character
LowerChar(c) ==
    CASE c = "A" -> "a"
      [] c = "P" -> "p"
      [] c = "I" -> "i"
      [] c = "X" -> "x"
      [] OTHER -> c

\* str.lower()
Lower(s) == [i \in 1..Len(s) |-> LowerChar(s[i])]

\* str.isupper(): at least one cased character and no lower-case character
IsUpper(s) ==
    /\ \E i \in 1..Len(s) : s[i] \in UpperChars
    /\ \A i \in 1..Len(s) : s[i] \notin LowerChars

\* str.strip(): leading and trailing whitespace removed
RECURSIVE LStrip(_)
LStrip(s) ==
    IF s # <<>> /\ Head(s) \in Whitespace THEN LStrip(Tail(s)) ELSE s

RECURSIVE RStrip(_)
RStrip(s) ==
    IF s # <<>> /\ s[Len(s)] \in Whitespace
    THEN RStrip(SubSeq(s, 1, Len(s) - 1))
    ELSE s

Strip(s) == RStrip(LStrip(s))

\* s.startswith(p)
StartsWith(s, p) == Len(s) >= Len(p) /\ SubSeq(s, 1, Len(p)) = p

\* `t in s`: t is a substring of s (the empty string is in every string)
Contains(s, t) ==
    \E i \in 0..(Len(s) - Len(t)) : SubSeq(s, i + 1, i + Len(t)) = t

\* s.split('\n'): the pieces between newlines; "" splits into [""]
RECURSIVE SplitFrom(_, _, _)
SplitFrom(s, i, cur) ==
    IF i > Len(s) THEN <<cur>>
    ELSE IF s[i] = "\n" THEN <<cur>> \o SplitFrom(s, i + 1, <<>>)
    ELSE SplitFrom(s, i + 1, Append(cur, s[i]))

Split(s) == SplitFrom(s, 1, <<>>)

\* s.count(t): non-overlapping occurrences found left to right;
\* for the empty t, len(s) + 1
RECURSIVE CountFrom(_, _, _)
CountFrom(s, t, i) ==
    IF i + Len(t) - 1 > Len(s) THEN 0
    ELSE IF SubSeq(s, i, i + Len(t) - 1) = t
         THEN 1 + CountFrom(s, t, i + Len(t))
         ELSE CountFrom(s, t, i + 1)

Count(s, t) == IF t = <<>> THEN Len(s) + 1 ELSE CountFrom(s, t, 1)

\* "\n".join(lines)
RECURSIVE Join(_)
Join(ls) ==
    IF ls = <<>> THEN <<>>
    ELSE IF Len(ls) = 1 THEN ls[1]
    ELSE ls[1] \o <<"\n">> \o Join(Tail(ls))

---------------------------------------------------------------------------
(* config.py                                                               *)

\* scores are kept to ScoreDigits decimal places
ScoreDigits == 4
ScoreScale == 10000

\* signal weights, in tenths
TFIDF_WEIGHT == 5
FREQUENCY_WEIGHT == 2
POSITION_WEIGHT == 3

\* 0.35, in the unit of a combined score: 1 / (10 * ScoreScale)
APPROVAL_THRESHOLD == 35000

\* LEARNING_WEIGHTS: lowest approval rate of a tier, in hundredths, and the
\* weight of the tier, in tenths
STRONG_BOOST_RATE == 80
STRONG_BOOST_WEIGHT == 13
MILD_BOOST_RATE == 50
MILD_BOOST_WEIGHT == 11
MILD_PENALTY_RATE == 20
MILD_PENALTY_WEIGHT == 9
STRONG_PENALTY_RATE == 0
STRONG_PENALTY_WEIGHT == 5

LEARNING_WEIGHTS ==
    [strong_boost |-> <<STRONG_BOOST_RATE, STRONG_BOOST_WEIGHT>>,
     mild_boost |-> <<MILD_BOOST_RATE, MILD_BOOST_WEIGHT>>,
     mild_penalty |-> <<MILD_PENALTY_RATE, MILD_PENALTY_WEIGHT>>,
     strong_penalty |-> <<STRONG_PENALTY_RATE, STRONG_PENALTY_WEIGHT>>]

POSITION_TITLE == 10000
POSITION_HEADER == 8000
POSITION_FIRST_PARAGRAPH == 6000
POSITION_BODY == 4000
POSITION_NOT_FOUND == 0

POSITION_SCORES ==
    [title |-> POSITION_TITLE, header |-> POSITION_HEADER,
     first_paragraph |-> POSITION_FIRST_PARAGRAPH, body |-> POSITION_BODY,
     not_found |-> POSITION_NOT_FOUND]

---------------------------------------------------------------------------
(* collect_feedback.calculate_position_score                               *)

HEADER_SCAN_LINES == 10
UPPER_HEADER_MAXLEN == 50
SHORT_HEADER_MAXLEN == 30
PARAGRAPH_MINLEN == 20

\* the body of the `for line in lines[:10]` loop: TRUE when it returns
HeaderLineMatches(line, tag_lower) ==
    LET line_lower == Strip(Lower(line))
    IN  /\ Contains(line_lower, tag_lower)
        /\ \/ StartsWith(Strip(line), <<"#">>)
           \/ IsUpper(Strip(line)) /\ Len(Strip(line)) < UPPER_HEADER_MAXLEN
           \/ Len(Strip(line)) < SHORT_HEADER_MAXLEN /\ Contains(line, <<":">>)

\* the loop over lines[:10], from line i on: TRUE when some iteration returns
RECURSIVE HeaderScan(_, _, _)
HeaderScan(lines, tag_lower, i) ==
    IF i > Len(lines) \/ i > HEADER_SCAN_LINES THEN FALSE
    ELSE IF HeaderLineMatches(lines[i], tag_lower) THEN TRUE
    ELSE HeaderScan(lines, tag_lower, i + 1)

\* a version that takes a line of PARAGRAPH_MINLEN characters too
IsParagraphLineAtLeast(line) ==
    /\ Strip(line) # <<>>
    /\ ~StartsWith(Strip(line), <<"#">>)
    /\ Len(Strip(line)) >= PARAGRAPH_MINLEN

\* the condition under which the first-paragraph loop takes a line
IsParagraphLine(line) ==
    /\ Strip(line) # <<>>
    /\ ~StartsWith(Strip(line), <<"#">>)
    /\ Len(Strip(line)) > PARAGRAPH_MINLEN

\* the first-paragraph loop, from line i on: the value of first_paragraph
RECURSIVE FirstParagraph(_, _)
FirstParagraph(lines, i) ==
    IF i > Len(lines) THEN <<>>
    ELSE IF IsParagraphLine(lines[i]) THEN Lower(lines[i])
    ELSE FirstParagraph(lines, i + 1)

\* a version that looks for headers before it looks at the title
calculate_position_score_header_first(t, text) ==
    LET lines == Split(text)
        tag_lower == Lower(t)
        first_paragraph == FirstParagraph(lines, 1)
    IN  IF HeaderScan(lines, tag_lower, 1)
        THEN POSITION_SCORES.header
        ELSE IF lines # <<>> /\ Contains(Lower(lines[1]), tag_lower)
        THEN POSITION_SCORES.title
        ELSE IF first_paragraph # <<>> /\ Contains(first_paragraph, tag_lower)
        THEN POSITION_SCORES.first_paragraph
        ELSE IF Contains(Lower(text), tag_lower)
        THEN POSITION_SCORES.body
        ELSE POSITION_SCORES.not_found

\* a version whose body check does not lower-case the text
calculate_position_score_cased_body(t, text) ==
    LET lines == Split(text)
        tag_lower == Lower(t)
        first_paragraph == FirstParagraph(lines, 1)
    IN  IF lines # <<>> /\ Contains(Lower(lines[1]), tag_lower)
        THEN POSITION_SCORES.title
        ELSE IF HeaderScan(lines, tag_lower, 1)
        THEN POSITION_SCORES.header
        ELSE IF first_paragraph # <<>> /\ Contains(first_paragraph, tag_lower)
        THEN POSITION_SCORES.first_paragraph
        ELSE IF Contains(text, tag_lower)
        THEN POSITION_SCORES.body
        ELSE POSITION_SCORES.not_found

calculate_position_score(t, text) ==
    LET lines == Split(text)
        tag_lower == Lower(t)
        first_paragraph == FirstParagraph(lines, 1)
    IN  IF lines # <<>> /\ Contains(Lower(lines[1]), tag_lower)
        THEN POSITION_SCORES.title
        ELSE IF HeaderScan(lines, tag_lower, 1)
        THEN POSITION_SCORES.header
        ELSE IF first_paragraph # <<>> /\ Contains(first_paragraph, tag_lower)
        THEN POSITION_SCORES.first_paragraph
        ELSE IF Contains(Lower(text), tag_lower)
        THEN POSITION_SCORES.body
        ELSE POSITION_SCORES.not_found

---------------------------------------------------------------------------
(* collect_feedback.calculate_frequency_score                              *)

\* math.log(n) for n = 1..16, in millionths
LnTable ==
    <<0, 693147, 1098612, 1386294, 1609437, 1791759, 1945910, 2079441,
      2197224, 2302585, 2397895, 2484906, 2564949, 2639057, 2708050, 2772588>>

math_log(n) == LnTable[n]

\* (a * 10^d) mod b, and a / b to d decimal places (rounded down), by long
\* division: the products stay within 32 bits
RECURSIVE DivRemainder(_, _, _)
DivRemainder(a, b, d) ==
    IF d = 0 THEN a % b ELSE (DivRemainder(a, b, d - 1) * 10) % b

RECURSIVE Divide(_, _, _)
Divide(a, b, d) ==
    IF d = 0 THEN a \div b
    ELSE Divide(a, b, d - 1) * 10 + (DivRemainder(a, b, d - 1) * 10) \div b

\* the value the clamp is applied to: log(count + 1) / log(10)
LogScaled(count) == Divide(math_log(count + 1), math_log(10), ScoreDigits)

FrequencyOfCountUnclamped(count) ==
    IF count = 0 THEN 0 ELSE LogScaled(count)

FrequencyOfCountLogOfCount(count) ==
    IF count = 0 THEN 0
    ELSE Min(ScoreScale, Divide(math_log(count), math_log(10), ScoreDigits))

\* lines 106-112: the score of an occurrence count
FrequencyOfCount(count) ==
    IF count = 0 THEN 0 ELSE Min(ScoreScale, LogScaled(count))

calculate_frequency_score(t, cleaned) ==
    FrequencyOfCount(Count(cleaned, Lower(t)))

---------------------------------------------------------------------------
(* collect_feedback.clean_text                                             *)

\* re.sub(r'[^a-z\s]', '', text): only lower-case letters and blanks stay
KeepLettersAndBlanks(s) ==
    SelectSeq(s, LAMBDA c : c \in LowerChars \cup Whitespace)

\* word_tokenize on a text of letters and blanks: the words between blanks
RECURSIVE TokensFrom(_, _, _)
TokensFrom(s, i, cur) ==
    IF i > Len(s) THEN (IF cur = <<>> THEN <<>> ELSE <<cur>>)
    ELSE IF s[i] \in Whitespace
         THEN (IF cur = <<>> THEN <<>> ELSE <<cur>>)
              \o TokensFrom(s, i + 1, <<>>)
         ELSE TokensFrom(s, i + 1, Append(cur, s[i]))

word_tokenize(s) == TokensFrom(s, 1, <<>>)

\* WordNetLemmatizer.lemmatize: a known plural gives its singular, any other
\* word is returned as it is
taxes == <<"t", "a", "x", "e", "s">>
tax == <<"t", "a", "x">>

lemmatize(token) == IF token = taxes THEN tax ELSE token

\* stopwords.words('english'), the ones the model's letters can spell
stop_words ==
    {<<"t", "h", "e">>, <<"t", "h", "i", "s">>, <<"t", "h", "a", "t">>,
     <<"h", "e", "r">>, <<"i", "t", "s">>, <<"s", "h", "e">>}

\* " ".join(tokens)
RECURSIVE JoinBlank(_)
JoinBlank(tokens) ==
    IF tokens = <<>> THEN <<>>
    ELSE IF Len(tokens) = 1 THEN tokens[1]
    ELSE tokens[1] \o <<" ">> \o JoinBlank(Tail(tokens))

clean_text(text) ==
    LET tokens == word_tokenize(KeepLettersAndBlanks(Lower(text)))
        lemmas == [i \in 1..Len(tokens) |-> lemmatize(tokens[i])]
        filtered_tokens ==
            SelectSeq(lemmas, LAMBDA w : w \notin stop_words /\ Len(w) > 2)
    IN  JoinBlank(filtered_tokens)

---------------------------------------------------------------------------
(* collect_feedback.simulate_feedback                                      *)

\* a combination whose weights sum to 1.2
CombinedScoreHeavy(tfidf_score, freq, pos) ==
    7 * tfidf_score + FREQUENCY_WEIGHT * freq + POSITION_WEIGHT * pos

\* lines 167-171: the weighted combination
CombinedScore(tfidf_score, freq, pos) ==
    TFIDF_WEIGHT * tfidf_score + FREQUENCY_WEIGHT * freq
        + POSITION_WEIGHT * pos

StatusOfStrict(combined_score) ==
    IF combined_score > APPROVAL_THRESHOLD THEN "approved" ELSE "rejected"

\* line 174
StatusOf(combined_score) ==
    IF combined_score >= APPROVAL_THRESHOLD THEN "approved" ELSE "rejected"

\* round(combined_score, 4): the nearest value with 4 decimal places; a
\* combined score halfway between two of them goes to either, as the binary
\* value of the float lies on one side or the other
RoundOutcomes(combined_score) ==
    IF combined_score % 10 = 5
    THEN {combined_score \div 10, combined_score \div 10 + 1}
    ELSE {(combined_score + 5) \div 10}

\* lines 159-180: the records one tag can give
RecordOutcomes(tag_data, text, cleaned) ==
    LET freq == calculate_frequency_score(tag_data.tag, cleaned)
        pos == calculate_position_score(tag_data.tag, text)
        combined_score == CombinedScore(tag_data.tfidf_score, freq, pos)
    IN  {[tag |-> tag_data.tag,
          status |-> StatusOf(combined_score),
          relevance_score |-> r] : r \in RoundOutcomes(combined_score)}

\* a loop that keeps the approved records only
RECURSIVE FeedbackListsApproved(_, _, _)
FeedbackListsApproved(tags, text, cleaned) ==
    IF tags = <<>> THEN {<<>>}
    ELSE {(IF r.status = "approved" THEN <<r>> ELSE <<>>) \o rest :
            r \in RecordOutcomes(Head(tags), text, cleaned),
            rest \in FeedbackListsApproved(Tail(tags), text, cleaned)}

\* the loop over the tags of one item: the feedback lists it can build
RECURSIVE FeedbackLists(_, _, _)
FeedbackLists(tags, text, cleaned) ==
    IF tags = <<>> THEN {<<>>}
    ELSE {<<r>> \o rest :
            r \in RecordOutcomes(Head(tags), text, cleaned),
            rest \in FeedbackLists(Tail(tags), text, cleaned)}

\* a lookup that falls back to the text of "a.md"
TextOfFallback(docs, filename) ==
    IF filename \in DOMAIN docs THEN docs[filename] ELSE docs["a.md"]

\* docs_texts.get(filename, "")
TextOf(docs, filename) ==
    IF filename \in DOMAIN docs THEN docs[filename] ELSE <<>>

\* lines 151-185: the entries one item can give
ItemOutcomes(item, docs) ==
    {[filename |-> item.filename, feedback |-> fl] :
        fl \in FeedbackLists(item.tags, TextOf(docs, item.filename),
                             clean_text(TextOf(docs, item.filename)))}

\* the values simulate_feedback can return
RECURSIVE simulate_feedback(_, _)
simulate_feedback(items, docs) ==
    IF items = <<>> THEN {<<>>}
    ELSE {<<e>> \o rest :
            e \in ItemOutcomes(Head(items), docs),
            rest \in simulate_feedback(Tail(items), docs)}

---------------------------------------------------------------------------
(* learn_from_feedback.compute_tag_stats and derive_tag_weights            *)

\* stats[tag] of the defaultdict: a tag not yet counted has both counts 0
StatsGet(stats, t) ==
    IF t \in DOMAIN stats THEN stats[t] ELSE [approved |-> 0, rejected |-> 0]

\* a count that passes over a status that is neither of the two
CountRecordKnown(stats, f) ==
    LET t == Lower(f.tag)
        old == StatsGet(stats, t)
        new == IF f.status = "approved"
               THEN [old EXCEPT !.approved = @ + 1]
               ELSE IF f.status = "rejected"
               THEN [old EXCEPT !.rejected = @ + 1]
               ELSE old
    IN  [k \in DOMAIN stats \cup {t} |-> IF k = t THEN new ELSE stats[k]]

\* lines 39-43: one record counted
CountRecord(stats, f) ==
    LET t == Lower(f.tag)
        old == StatsGet(stats, t)
        new == IF f.status = "approved"
               THEN [old EXCEPT !.approved = @ + 1]
               ELSE [old EXCEPT !.rejected = @ + 1]
    IN  [k \in DOMAIN stats \cup {t} |-> IF k = t THEN new ELSE stats[k]]

\* line 38: the loop over the records of one item
RECURSIVE CountRecords(_, _)
CountRecords(stats, fs) ==
    IF fs = <<>> THEN stats
    ELSE CountRecords(CountRecord(stats, Head(fs)), Tail(fs))

\* line 37: the loop over the items
RECURSIVE CountItems(_, _)
CountItems(stats, items) ==
    IF items = <<>> THEN stats
    ELSE CountItems(CountRecords(stats, Head(items).feedback), Tail(items))

\* lines 38-40: item["feedback"], f["tag"] and f["status"] raise KeyError
\* for an item or a record that has no such key; nothing catches it
RaisesKeyError(data) ==
    \E i \in 1..Len(data) :
        \/ "feedback" \notin DOMAIN data[i]
        \/ /\ "feedback" \in DOMAIN data[i]
           /\ \E j \in 1..Len(data[i].feedback) :
                  \/ "tag" \notin DOMAIN data[i].feedback[j]
                  \/ "status" \notin DOMAIN data[i].feedback[j]

\* lines 48-49: the approval rate, as the fraction approved / total
ApprovalRate(counts) ==
    LET total == counts.approved + counts.rejected
    IN  IF total > 0 THEN [num |-> counts.approved, den |-> total]
        ELSE [num |-> 0, den |-> 1]

\* a version that starts from the rates of the call before
compute_tag_stats_keeping(data) ==
    LET stats == CountItems(<<>>, data)
    IN  [t \in DOMAIN stats \cup DOMAIN tag_rates |->
            IF t \in DOMAIN stats THEN ApprovalRate(stats[t]) ELSE tag_rates[t]]

\* a version that counts the tags as they are spelled
compute_tag_stats_cased(data) ==
    LET CountSpelled(stats, f) ==
            [k \in DOMAIN stats \cup {f.tag} |->
                IF k = f.tag
                THEN IF f.status = "approved"
                     THEN [StatsGet(stats, k) EXCEPT !.approved = @ + 1]
                     ELSE [StatsGet(stats, k) EXCEPT !.rejected = @ + 1]
                ELSE stats[k]]
        RECURSIVE Spelled(_, _)
        Spelled(stats, fs) ==
            IF fs = <<>> THEN stats
            ELSE Spelled(CountSpelled(stats, Head(fs)), Tail(fs))
        RECURSIVE SpelledItems(_, _)
        SpelledItems(stats, items) ==
            IF items = <<>> THEN stats
            ELSE SpelledItems(Spelled(stats, Head(items).feedback),
                              Tail(items))
        stats == SpelledItems(<<>>, data)
    IN  [t \in DOMAIN stats |-> ApprovalRate(stats[t])]

\* a version in which a later record of a tag replaces the earlier ones
compute_tag_stats_latest(data) ==
    LET Latest(stats, f) ==
            [k \in DOMAIN stats \cup {Lower(f.tag)} |->
                IF k = Lower(f.tag)
                THEN IF f.status = "approved"
                     THEN [approved |-> 1, rejected |-> 0]
                     ELSE [approved |-> 0, rejected |-> 1]
                ELSE stats[k]]
        RECURSIVE LatestOf(_, _)
        LatestOf(stats, fs) ==
            IF fs = <<>> THEN stats
            ELSE LatestOf(Latest(stats, Head(fs)), Tail(fs))
        RECURSIVE LatestItems(_, _)
        LatestItems(stats, items) ==
            IF items = <<>> THEN stats
            ELSE LatestItems(LatestOf(stats, Head(items).feedback),
                             Tail(items))
        stats == LatestItems(<<>>, data)
    IN  [t \in DOMAIN stats |-> ApprovalRate(stats[t])]

compute_tag_stats(data) ==
    LET stats == CountItems(<<>>, data)
    IN  [t \in DOMAIN stats |-> ApprovalRate(stats[t])]

\* rate >= p / 100, for the fraction rate
RateAtLeast(rate, p) == rate.num * 100 >= p * rate.den

WeightOfRateStrict(rate) ==
    IF rate.num * 100 > LEARNING_WEIGHTS.strong_boost[1] * rate.den
    THEN LEARNING_WEIGHTS.strong_boost[2]
    ELSE IF rate.num * 100 > LEARNING_WEIGHTS.mild_boost[1] * rate.den
    THEN LEARNING_WEIGHTS.mild_boost[2]
    ELSE IF rate.num * 100 > LEARNING_WEIGHTS.mild_penalty[1] * rate.den
    THEN LEARNING_WEIGHTS.mild_penalty[2]
    ELSE LEARNING_WEIGHTS.strong_penalty[2]

\* lines 65-72: the weight of one rate
WeightOfRate(rate) ==
    IF RateAtLeast(rate, LEARNING_WEIGHTS.strong_boost[1])
    THEN LEARNING_WEIGHTS.strong_boost[2]
    ELSE IF RateAtLeast(rate, LEARNING_WEIGHTS.mild_boost[1])
    THEN LEARNING_WEIGHTS.mild_boost[2]
    ELSE IF RateAtLeast(rate, LEARNING_WEIGHTS.mild_penalty[1])
    THEN LEARNING_WEIGHTS.mild_penalty[2]
    ELSE LEARNING_WEIGHTS.strong_penalty[2]

\* a version that leaves out the tags that were never approved
derive_tag_weights_skipping(rates) ==
    [t \in {k \in DOMAIN rates : rates[k].num > 0} |-> WeightOfRate(rates[t])]

\* a version whose dict `weights` outlives the call
derive_tag_weights_remembering(rates) ==
    [t \in DOMAIN rates \cup DOMAIN tag_weights |->
        IF t \in DOMAIN rates THEN WeightOfRate(rates[t]) ELSE tag_weights[t]]

\* lines 62-74
derive_tag_weights(rates) ==
    [t \in DOMAIN rates |-> WeightOfRate(rates[t])]

---------------------------------------------------------------------------
(* Files and JSON text.  A path is the pair <<directory, name>> that       *)
(* os.path.join makes; a file is absent or holds a text; a JSON text is    *)
(* the sequence of its tokens, so that a text cut short is not a document. *)

PathJoin(dir, name) == <<dir, name>>

\* generate_tags.py line 33: the default of weights_path
DEFAULT_WEIGHTS_PATH == PathJoin("outputs", "tag_weights.json")

NoFile == [exists |-> FALSE, text |-> <<>>]
FileOf(text) == [exists |-> TRUE, text |-> text]

\* open(path, "w") ... write: the file holds the text and nothing else
WriteFile(fsys, path, text) == [fsys EXCEPT ![path] = FileOf(text)]

\* the elements of a finite set, one after the other (dict order)
RECURSIVE KeysInOrder(_)
KeysInOrder(S) ==
    IF S = {} THEN <<>>
    ELSE LET k == CHOOSE x \in S : TRUE
         IN  <<k>> \o KeysInOrder(S \ {k})

\* json.dump of a dict with string keys
json_dump_object(table) ==
    LET keys == KeysInOrder(DOMAIN table)
    IN  <<[kind |-> "{"]>>
        \o [i \in 1..Len(keys) |->
               [kind |-> "member", key |-> keys[i], value |-> table[keys[i]]]]
        \o <<[kind |-> "}"]>>

\* json.dump of a list
json_dump_array(list) ==
    <<[kind |-> "["]>>
    \o [i \in 1..Len(list) |-> [kind |-> "element", value |-> list[i]]]
    \o <<[kind |-> "]"]>>

\* json.load returns a dict for this text; for any other it raises
IsJsonObject(text) ==
    /\ Len(text) >= 2
    /\ text[1].kind = "{"
    /\ text[Len(text)].kind = "}"
    /\ \A i \in 2..(Len(text) - 1) : text[i].kind = "member"

IsJsonArray(text) ==
    /\ Len(text) >= 2
    /\ text[1].kind = "["
    /\ text[Len(text)].kind = "]"
    /\ \A i \in 2..(Len(text) - 1) : text[i].kind = "element"

\* json.load of an object: a key written twice keeps its last value
json_load_object(text) ==
    LET members == SubSeq(text, 2, Len(text) - 1)
        LastOf(k) ==
            CHOOSE i \in 1..Len(members) :
                /\ members[i].key = k
                /\ \A j \in (i + 1)..Len(members) : members[j].key # k
    IN  [k \in {members[i].key : i \in 1..Len(members)} |->
            members[LastOf(k)].value]

json_load_array(text) ==
    [i \in 1..(Len(text) - 2) |-> text[i + 1].value]

\* `with open(path, "r") as f: json.load(f)`: the value read, or the
\* exception that open or json.load raises
ReadJson(fsys, path) ==
    IF ~fsys[path].exists
    THEN [raised |-> "FileNotFoundError", value |-> <<>>]
    ELSE IF IsJsonObject(fsys[path].text)
    THEN [raised |-> "", value |-> json_load_object(fsys[path].text)]
    ELSE IF IsJsonArray(fsys[path].text)
    THEN [raised |-> "", value |-> json_load_array(fsys[path].text)]
    ELSE [raised |-> "JSONDecodeError", value |-> <<>>]

\* a call that returns v
Returned(v) == [raised |-> "", value |-> v]

\* generate_tags.py lines 33-42: without the file no read is tried; an
\* exception of the read is caught; both give the empty dict
load_tag_weights_call(fsys, weights_path) ==
    IF fsys[weights_path].exists
    THEN IF ReadJson(fsys, weights_path).raised # ""
         THEN Returned(<<>>)
         ELSE ReadJson(fsys, weights_path)
    ELSE Returned(<<>>)

load_tag_weights(fsys, weights_path) ==
    load_tag_weights_call(fsys, weights_path).value

\* collect_feedback.py lines 46-52: `except Exception` gives the empty list
load_tags_call(fsys, tags_file) ==
    IF ReadJson(fsys, tags_file).raised # ""
    THEN Returned(<<>>)
    ELSE ReadJson(fsys, tags_file)

load_tags(fsys, tags_file) == load_tags_call(fsys, tags_file).value

\* a load without the except clause
load_feedback_uncaught(fsys, feedback_path) == ReadJson(fsys, feedback_path)

\* learn_from_feedback.py lines 22-28: `except Exception` gives the empty
\* list
load_feedback_call(fsys, feedback_path) ==
    IF ReadJson(fsys, feedback_path).raised # ""
    THEN Returned(<<>>)
    ELSE ReadJson(fsys, feedback_path)

load_feedback(fsys, feedback_path) ==
    load_feedback_call(fsys, feedback_path).value

\* a save that adds the new weights to the table already in the file
save_weights_merging(fsys, weights, output_path) ==
    LET old == load_tag_weights(fsys, output_path)
    IN  WriteFile(fsys, output_path,
                  json_dump_object(
                      [k \in DOMAIN old \cup DOMAIN weights |->
                          IF k \in DOMAIN weights THEN weights[k] ELSE old[k]]))

\* learn_from_feedback.py lines 80-83, as one step
save_weights(fsys, weights, output_path) ==
    WriteFile(fsys, output_path, json_dump_object(weights))

\* generate_tags.py lines 126-128 and collect_feedback.py lines 191-193
save_tags_to_json(fsys, tags_list, output_path) ==
    WriteFile(fsys, output_path, json_dump_array(tags_list))

save_feedback(fsys, feedback, output_path) ==
    WriteFile(fsys, output_path, json_dump_array(feedback))

---------------------------------------------------------------------------
(* generate_tags.generate_tags.  The TfidfVectorizer is a library: its     *)
(* vocabulary and its matrix are given.  An adjusted score is a tf-idf     *)
(* score (ten-thousandths) times a weight (tenths): hundred-thousandths.   *)

\* the multiplier of a term no table entry names: 1.0
NEUTRAL_WEIGHT == 10

\* a lookup that gives a term the table does not hold the multiplier 0.5
WeightGetPenalizing(table, term) ==
    IF Lower(term) \in DOMAIN table THEN table[Lower(term)] ELSE 5

\* line 104: tag_weights.get(term.lower(), 1.0)
WeightGet(table, term) ==
    IF Lower(term) \in DOMAIN table THEN table[Lower(term)] ELSE NEUTRAL_WEIGHT

\* lines 102-105: the list adjusted_scores of one document
AdjustedScores(names, row, table) ==
    [i \in 1..Len(names) |->
        [term |-> names[i],
         adjusted_score |-> row[i] * WeightGet(table, names[i]),
         original_tfidf_score |-> row[i]]]

\* sorted(..., key=lambda x: x[1], reverse=True): stable, so entries with
\* equal adjusted scores keep their order
RECURSIVE InsertByAdjusted(_, _)
InsertByAdjusted(sorted, x) ==
    IF sorted = <<>> THEN <<x>>
    ELSE IF Head(sorted).adjusted_score >= x.adjusted_score
         THEN <<Head(sorted)>> \o InsertByAdjusted(Tail(sorted), x)
         ELSE <<x>> \o sorted

\* a sort on the original scores
RECURSIVE InsertByOriginal(_, _)
InsertByOriginal(sorted, x) ==
    IF sorted = <<>> THEN <<x>>
    ELSE IF Head(sorted).original_tfidf_score >= x.original_tfidf_score
         THEN <<Head(sorted)>> \o InsertByOriginal(Tail(sorted), x)
         ELSE <<x>> \o sorted

RECURSIVE SortedByOriginal(_)
SortedByOriginal(entries) ==
    IF entries = <<>> THEN <<>>
    ELSE InsertByOriginal(
             SortedByOriginal(SubSeq(entries, 1, Len(entries) - 1)),
             entries[Len(entries)])

RECURSIVE SortedByAdjusted(_)
SortedByAdjusted(entries) ==
    IF entries = <<>> THEN <<>>
    ELSE InsertByAdjusted(
             SortedByAdjusted(SubSeq(entries, 1, Len(entries) - 1)),
             entries[Len(entries)])

\* a selection that emits the weighted score as the tfidf_score
TopTermsWeighted(entries, k) ==
    LET first == SubSeq(SortedByAdjusted(entries), 1, Min(k, Len(entries)))
        kept == SelectSeq(first, LAMBDA e : e.adjusted_score > 0)
    IN  [i \in 1..Len(kept) |->
            [tag |-> kept[i].term,
             tfidf_score |-> kept[i].adjusted_score \div 10,
             adjusted_tfidf_score |-> kept[i].adjusted_score]]

\* lines 108-115: the first top_k entries, those of them above 0
TopTerms(entries, k) ==
    LET first == SubSeq(SortedByAdjusted(entries), 1, Min(k, Len(entries)))
        kept == SelectSeq(first, LAMBDA e : e.adjusted_score > 0)
    IN  [i \in 1..Len(kept) |->
            [tag |-> kept[i].term,
             tfidf_score |-> kept[i].original_tfidf_score,
             adjusted_tfidf_score |-> kept[i].adjusted_score]]

\* lines 94-121, for the table that load_tag_weights() returned
generate_tags(docs, names, matrix, k, table) ==
    [idx \in 1..Len(docs) |->
        [filename |-> docs[idx].filename,
         tags |-> TopTerms(AdjustedScores(names, matrix[idx], table), k)]]

\* collect_feedback.load_documents, lines 34-43: filename -> lowered text
load_docs_for_feedback(docs) ==
    [f \in {docs[i].filename : i \in 1..Len(docs)} |->
        Lower((CHOOSE d \in {docs[i] : i \in 1..Len(docs)} :
                   d.filename = f).content)]

---------------------------------------------------------------------------
(* Inputs of the position scorer                                           *)

api == <<"a", "p", "i">>
API == <<"A", "P", "I">>

\* lines the documents under test are made of
L_empty == <<>>
L_intro == <<"x", "x">>
L_md_header == <<"#", " ">> \o API
L_md_indented == <<" ", "#">> \o api
L_md_notag == <<"#", " ", "x">>
L_md_tag_space == <<"#", " ">> \o api \o <<" ">>
L_upper == API \o <<" ", "X">>
L_upper49 == API \o Rep("X", 46)
L_upper50 == API \o Rep("X", 47)
L_colon == api \o <<":", " ", "x">>
L_colon29 == api \o <<":">> \o Rep("x", 25)
L_colon30 == api \o <<":">> \o Rep("x", 26)
L_para_tag == api \o Rep("x", 18)
L_para20 == api \o Rep("x", 17)
L_para_notag == Rep("x", 21)
L_body == <<"x", " ">> \o api
L_word == <<"t", "h", "e", "r">> \o api \o <<"s", "t">>

Palette ==
    {L_empty, L_intro, L_md_header, L_md_indented, L_md_notag, L_md_tag_space,
     L_upper, L_upper49, L_upper50, L_colon, L_colon29, L_colon30,
     L_para_tag, L_para20, L_para_notag, L_body, L_word}

PadLines == {L_empty, L_intro}

\* tags given to calculate_position_score: lower case, upper case, empty,
\* and one ending in a blank
PosTags == {api, API, <<>>, api \o <<" ">>}

\* a document: k filler lines, then one or two palette lines
PosLineSeqs ==
    {Rep(p, k) \o body :
        p \in PadLines, k \in 0..MaxPad,
        body \in {<<l>> : l \in Palette}
                 \cup {<<l1, l2>> : l1 \in Palette, l2 \in Palette}}

PosTexts == {Join(ls) : ls \in PosLineSeqs}

---------------------------------------------------------------------------
(* Specification of the position scorer: Init draws the arguments, the     *)
(* action makes the call.                                                  *)

InitPosition ==
    /\ pc = "input"
    /\ tag \in PosTags
    /\ raw_text \in PosTexts
    /\ cleaned_text = <<>>
    /\ pos_score = 0
    /\ freq_score = 0
    /\ FeedbackIdle
    /\ LearnIdle
    /\ PipelineIdle
    /\ FileIdle
    /\ call_log = <<>>
    /\ written = <<>>

ScorePosition ==
    /\ pc = "input"
    /\ pos_score' = calculate_position_score(tag, raw_text)
    /\ pc' = "position_scored"
    /\ UNCHANGED <<tag, raw_text, cleaned_text, freq_score>>
    /\ UNCHANGED <<feedbackVars, learnVars>>
    /\ UNCHANGED <<pipelineVars, fileVars>>
    /\ UNCHANGED call_log
    /\ UNCHANGED written

NextPosition == ScorePosition

SpecPosition == InitPosition /\ [][NextPosition]_vars

---------------------------------------------------------------------------
(* Vocabulary of the position claims, defined on the text itself: line k   *)
(* is what lies between newline k-1 and newline k.                         *)

NewlinesOf(text) == {i \in 1..Len(text) : text[i] = "\n"}

\* the k-th smallest of the newline positions nl
NthNewline(nl, k) ==
    CHOOSE p \in nl : Cardinality({q \in nl : q <= p}) = k

\* the lines of a text whose newlines are at the positions nl
LinesBetween(text, nl) ==
    [k \in 1..(Cardinality(nl) + 1) |->
        SubSeq(text,
               IF k = 1 THEN 1 ELSE NthNewline(nl, k - 1) + 1,
               IF k = Cardinality(nl) + 1 THEN Len(text)
               ELSE NthNewline(nl, k) - 1)]

LinesOfText(text) ==
    CHOOSE ls \in {LinesBetween(text, nl) : nl \in {NewlinesOf(text)}} : TRUE

\* the tag occurs in the line, letter case ignored
TagInLine(line) == Contains(Lower(line), Lower(tag))

\* the tag occurs in the line once the line is stripped of surrounding blanks
TagInStrippedLine(line) == Contains(Strip(Lower(line)), Lower(tag))

TagInText == Contains(Lower(raw_text), Lower(tag))

\* the three header shapes of the specification
HeaderLike(line) ==
    LET s == Strip(line)
    IN  \/ s # <<>> /\ s[1] = "#"
        \/ IsUpper(s) /\ Len(s) < 50
        \/ Len(s) < 30 /\ \E i \in 1..Len(s) : s[i] = ":"

\* some line among the first 10 contains the tag and is header-like
HeaderZone(ls) ==
    \E k \in 1..Min(10, Len(ls)) : TagInLine(ls[k]) /\ HeaderLike(ls[k])

\* the same, the tag being looked for in the stripped line
StrippedHeaderZone(ls) ==
    \E k \in 1..Min(10, Len(ls)) :
        TagInStrippedLine(ls[k]) /\ HeaderLike(ls[k])

\* a header-like line with the tag exists, but only at line 11 or later
HeaderOnlyAfterTen(ls) ==
    /\ ~StrippedHeaderZone(ls)
    /\ \E k \in 11..Len(ls) : TagInLine(ls[k]) /\ HeaderLike(ls[k])

\* a line that can be the first paragraph
ParagraphLike(line) ==
    LET s == Strip(line)
    IN  s # <<>> /\ s[1] # "#" /\ Len(s) > 20

\* the tag occurs in the first paragraph: the first such line from the top
ParagraphZone(ls) ==
    \E k \in 1..Len(ls) :
        /\ ParagraphLike(ls[k])
        /\ \A j \in 1..(k - 1) : ~ParagraphLike(ls[j])
        /\ TagInLine(ls[k])

\* the tag occurs in such a line, but not in the first one
TagOnlyInLaterParagraph(ls) ==
    /\ ~ParagraphZone(ls)
    /\ \E k \in 1..Len(ls) : ParagraphLike(ls[k]) /\ TagInLine(ls[k])

TitleZone(ls) == TagInLine(ls[1])

PositionScored == pc = "position_scored"

---------------------------------------------------------------------------
(* C5: a tag that occurs, letter case ignored, in the first line scores    *)
(* exactly 1.0, whatever other zones it also occurs in: the title zone     *)
(* wins, and no zone score is added to it.                                 *)
C5_TitleWins ==
    \A ls \in {LinesOfText(raw_text)} :
        (PositionScored /\ TitleZone(ls)) => pos_score = 10000

\* the tag is in the title, in a header and in the first paragraph
C5_Witness ==
    \E ls \in {LinesOfText(raw_text)} :
        /\ PositionScored
        /\ tag = api
        /\ raw_text = Join(<<L_colon, L_para_tag>>)
        /\ TitleZone(ls) /\ HeaderZone(ls) /\ ParagraphZone(ls)
        /\ pos_score = 10000

(* C6 as stated: with the tag outside the first line, the score is 0.8     *)
(* exactly when one of the first 10 lines contains the tag and is          *)
(* header-like.                                                            *)
C6_HeaderIffAsStated ==
    \A ls \in {LinesOfText(raw_text)} :
        (PositionScored /\ ~TitleZone(ls)) =>
            (pos_score = 8000 <=> HeaderZone(ls))

(* The header rule with the containment the scan applies: the tag is       *)
(* looked for in the stripped line; a header-like line at line 11 or later *)
(* never gives 0.8.                                                        *)
HeaderIffStripped ==
    \A ls \in {LinesOfText(raw_text)} :
        /\ (PositionScored /\ ~TitleZone(ls)) =>
               (pos_score = 8000 <=> StrippedHeaderZone(ls))
        /\ (PositionScored /\ HeaderOnlyAfterTen(ls)) => pos_score # 8000

\* a header at line 10 with the tag also in the first paragraph
HeaderAtLineTen ==
    \E ls \in {LinesOfText(raw_text)} :
        /\ PositionScored
        /\ tag = api
        /\ raw_text = Join(Rep(L_intro, 9) \o <<L_upper, L_para_tag>>)
        /\ ~TitleZone(ls) /\ StrippedHeaderZone(ls)
        /\ pos_score = 8000

\* a header at line 11: not 0.8
HeaderAtLineEleven ==
    \E ls \in {LinesOfText(raw_text)} :
        /\ PositionScored
        /\ tag = api
        /\ raw_text = Join(Rep(L_intro, 10) \o <<L_upper>>)
        /\ HeaderOnlyAfterTen(ls)
        /\ pos_score = 4000

(* C7: with neither the title nor the header rule matching, the score is   *)
(* 0.6 exactly when the tag occurs in the first line from the top that is  *)
(* non-empty when stripped, does not start with '#' and is longer than 20; *)
(* a tag only in a later such line scores as body, 0.4.                    *)
C7_FirstParagraphIff ==
    \A ls \in {LinesOfText(raw_text)} :
        (PositionScored /\ ~TitleZone(ls) /\ ~StrippedHeaderZone(ls)) =>
            /\ pos_score = 6000 <=> ParagraphZone(ls)
            /\ TagOnlyInLaterParagraph(ls) => pos_score = 4000

\* a blank line, a header without the tag, then the first paragraph
C7_Witness ==
    \E ls \in {LinesOfText(raw_text)} :
        /\ PositionScored
        /\ tag = API
        /\ raw_text = Join(<<L_empty, L_md_notag, L_colon30>>)
        /\ ~TitleZone(ls) /\ ~StrippedHeaderZone(ls) /\ ParagraphZone(ls)
        /\ pos_score = 6000

\* the tag only in the second such line: body
C7_WitnessLater ==
    \E ls \in {LinesOfText(raw_text)} :
        /\ PositionScored
        /\ tag = api
        /\ raw_text = Join(<<L_para_notag, L_para_tag>>)
        /\ TagOnlyInLaterParagraph(ls)
        /\ pos_score = 4000

(* C8: the score is 0.0 exactly when the lower-cased tag is not a          *)
(* substring of the lower-cased text; a tag that is present and matches no *)
(* title, header or first-paragraph rule scores 0.4; the score is always   *)
(* one of 0.0, 0.4, 0.6, 0.8, 1.0.                                         *)
C8_NotFoundIffAbsent ==
    \A ls \in {LinesOfText(raw_text)} :
        PositionScored =>
            /\ pos_score = 0 <=> ~TagInText
            /\ (/\ TagInText
                /\ ~TitleZone(ls)
                /\ ~StrippedHeaderZone(ls)
                /\ ~ParagraphZone(ls)) => pos_score = 4000
            /\ pos_score \in {0, 4000, 6000, 8000, 10000}

\* the tag inside a longer word, in a plain short line: body
C8_Witness ==
    \E ls \in {LinesOfText(raw_text)} :
        /\ PositionScored
        /\ tag = api
        /\ raw_text = Join(<<L_intro, L_word>>)
        /\ TagInText
        /\ ~TitleZone(ls) /\ ~StrippedHeaderZone(ls) /\ ~ParagraphZone(ls)
        /\ pos_score = 4000

\* the tag nowhere in the text
C8_WitnessAbsent ==
    /\ PositionScored
    /\ tag = api
    /\ raw_text = Join(<<L_intro, L_para_notag>>)
    /\ ~TagInText
    /\ pos_score = 0

---------------------------------------------------------------------------
(* Inputs and specification of the frequency scorer                        *)

FreqChars == {"a", "b"}

\* every text over FreqChars of length at most MaxTextLen
FreqTexts == UNION {[1..n -> FreqChars] : n \in 0..MaxTextLen}

\* tags: a letter, an upper-case letter, two-letter tags, the empty tag
FreqTags == {<<"a">>, <<"A">>, <<"a", "a">>, <<"a", "b">>, <<>>}

InitFrequency ==
    /\ pc = "input"
    /\ tag \in FreqTags
    /\ cleaned_text \in FreqTexts
    /\ raw_text = <<>>
    /\ pos_score = 0
    /\ freq_score = 0
    /\ FeedbackIdle
    /\ LearnIdle
    /\ PipelineIdle
    /\ FileIdle
    /\ call_log = <<>>
    /\ written = <<>>

ScoreFrequency ==
    /\ pc = "input"
    /\ freq_score' = calculate_frequency_score(tag, cleaned_text)
    /\ pc' = "frequency_scored"
    /\ UNCHANGED <<tag, raw_text, cleaned_text, pos_score>>
    /\ UNCHANGED <<feedbackVars, learnVars>>
    /\ UNCHANGED <<pipelineVars, fileVars>>
    /\ UNCHANGED call_log
    /\ UNCHANGED written

NextFrequency == ScoreFrequency

SpecFrequency == InitFrequency /\ [][NextFrequency]_vars

---------------------------------------------------------------------------
(* Vocabulary of the frequency claims                                      *)

FrequencyScored == pc = "frequency_scored"

\* the count the scorer takes: cleaned_text.count(tag.lower())
OccurrenceCount == Count(cleaned_text, Lower(tag))

\* the places of the text at which the lower-cased tag starts
OccurrencePlaces ==
    {i \in 0..(Len(cleaned_text) - Len(tag)) :
        SubSeq(cleaned_text, i + 1, i + Len(tag)) = Lower(tag)}

\* log10(n + 1) for n = 1..15, in ten-thousandths, rounded down
Log10Table ==
    <<3010, 4771, 6020, 6989, 7781, 8450, 9030, 9542, 10000, 10413, 10791,
      11139, 11461, 11760, 12041>>

\* the score of a text holding the tag "a" n times
ScoreOfRepeats(n) == calculate_frequency_score(<<"a">>, Rep("a", n))

(* C9: the score is 0.0 for an occurrence count of 0 and otherwise         *)
(* min(1.0, ln(count + 1) / ln(10)): exactly 1.0 from 9 occurrences on,    *)
(* strictly below 1.0 for 1 to 8 occurrences.                              *)
C9_LogFormula ==
    FrequencyScored =>
        /\ OccurrenceCount = 0 => freq_score = 0
        /\ OccurrenceCount > 0 =>
               freq_score = Min(10000, Log10Table[OccurrenceCount])
        /\ OccurrenceCount >= 9 => freq_score = 10000
        /\ OccurrenceCount \in 1..8 => freq_score < 10000

\* ten occurrences: the clamp acts
C9_Witness ==
    /\ FrequencyScored
    /\ tag = <<"A">>
    /\ cleaned_text = Rep("a", 10)
    /\ OccurrenceCount = 10
    /\ freq_score = 10000

(* C10: the score is in [0, 1], is 0.0 exactly when the tag occurs nowhere *)
(* in the text, and does not decrease as the occurrence count grows; three *)
(* occurrences score strictly more than one, and less than three times as  *)
(* much.                                                                   *)
C10_BoundedMonotone ==
    FrequencyScored =>
        /\ freq_score >= 0 /\ freq_score <= 10000
        /\ freq_score = 0 <=> OccurrencePlaces = {}
        /\ \A n \in 0..MaxTextLen :
               /\ n <= OccurrenceCount => ScoreOfRepeats(n) <= freq_score
               /\ n >= OccurrenceCount => ScoreOfRepeats(n) >= freq_score
        /\ OccurrenceCount = 3 =>
               /\ freq_score > ScoreOfRepeats(1)
               /\ freq_score < 3 * ScoreOfRepeats(1)

\* three occurrences inside a longer text
C10_Witness ==
    /\ FrequencyScored
    /\ tag = <<"a", "b">>
    /\ cleaned_text = <<"a", "b", "b", "a", "b", "a", "a", "b">>
    /\ OccurrenceCount = 3
    /\ freq_score > ScoreOfRepeats(1)
    /\ freq_score < 3 * ScoreOfRepeats(1)

\* two places of OccurrencePlaces whose occurrences share a character
OverlappingPlaces ==
    \E i \in OccurrencePlaces, j \in OccurrencePlaces :
        i < j /\ j < i + Len(tag)

(* C11: the occurrence count the score is computed from is the number of   *)
(* positions at which the lower-cased tag occurs as a substring of the     *)
(* cleaned text, occurrences inside longer words and overlapping           *)
(* occurrences included (tag "aa" in text "aaa": 2).                       *)
C11_EveryPositionCounts ==
    FrequencyScored =>
        freq_score = FrequencyOfCount(Cardinality(OccurrencePlaces))

\* what str.count does: the count is the number of places when no two
\* occurrences overlap, and smaller when some do (the tag is not empty)
CountSkipsOverlaps ==
    (FrequencyScored /\ tag # <<>>) =>
        /\ ~OverlappingPlaces => OccurrenceCount = Cardinality(OccurrencePlaces)
        /\ OverlappingPlaces => OccurrenceCount < Cardinality(OccurrencePlaces)

\* tag "aa" in text "aaa": two places, counted once
OverlapCountedOnce ==
    /\ FrequencyScored
    /\ tag = <<"a", "a">>
    /\ cleaned_text = <<"a", "a", "a">>
    /\ Cardinality(OccurrencePlaces) = 2
    /\ OccurrenceCount = 1
    /\ freq_score = Log10Table[1]

(* C16: both scorers return a value for every tag and every text, the      *)
(* empty tag and the empty text included, and return 0.0 whenever the tag  *)
(* or the text is the empty string.                                        *)
C16_EmptyInputsScoreZero ==
    /\ PositionScored =>
           /\ pos_score \in {0, 4000, 6000, 8000, 10000}
           /\ (tag = <<>> \/ raw_text = <<>>) => pos_score = 0
    /\ FrequencyScored =>
           /\ freq_score \in 0..ScoreScale
           /\ (tag = <<>> \/ cleaned_text = <<>>) => freq_score = 0

\* what the code does: an empty text scores 0.0 for a tag that is not empty;
\* the empty tag is a substring of every first line (title, 1.0) and is
\* counted len(text) + 1 times by str.count
EmptyTagFoundEverywhere ==
    /\ PositionScored =>
           /\ (tag # <<>> /\ raw_text = <<>>) => pos_score = 0
           /\ tag = <<>> => pos_score = POSITION_TITLE
    /\ FrequencyScored =>
           /\ (tag # <<>> /\ cleaned_text = <<>>) => freq_score = 0
           /\ tag = <<>> =>
                  freq_score
                      = Min(ScoreScale, Log10Table[Len(cleaned_text) + 1])

\* the empty tag and the empty text: the frequency score is log10(2)
EmptyTagEmptyTextFrequency ==
    /\ FrequencyScored
    /\ tag = <<>>
    /\ cleaned_text = <<>>
    /\ freq_score = 3010

\* the empty tag and the empty text: the position score is 1.0
EmptyTagEmptyTextPosition ==
    /\ PositionScored
    /\ tag = <<>>
    /\ raw_text = <<>>
    /\ pos_score = 10000

---------------------------------------------------------------------------
(* Inputs and specification of the feedback evaluator                      *)

\* documents: the tag in the title, in a header, in the first paragraph, in
\* the body inside a longer word, and a document without it
DocTitle == Join(<<L_upper, L_body>>)
DocHeader == Join(<<L_intro, L_md_header, L_para_tag>>)
DocParagraph == Join(<<L_intro, L_para_tag, taxes>>)
DocBody == Join(<<L_para_notag, L_word>>)
DocAbsent == Join(<<L_para_notag, taxes>>)

\* the document folders of the model; no folder holds "gone.txt"
DocFolders ==
    {("a.md" :> DocTitle) @@ ("b.txt" :> DocBody),
     ("a.md" :> DocHeader) @@ ("b.txt" :> DocAbsent),
     ("a.md" :> DocParagraph) @@ ("b.txt" :> DocTitle)}

Filenames == {"a.md", "b.txt", "gone.txt"}

\* tf-idf scores of the tags: 0.0291, 0.1, 0.1804, 0.6999, 0.7 and 1.0, and
\* two scores no vectorizer gives but the evaluator accepts: -0.3 and 2.1
TfidfScores == {291, 1000, 1804, 6999, 7000, 10000, -3000, 21000}

TagDatas == {[tag |-> t, tfidf_score |-> v] : t \in {api, tax}, v \in TfidfScores}

\* the tag lists of at most n records
TagLists(n) == UNION {[1..k -> TagDatas] : k \in 0..n}

\* the tags.json contents of at most n entries
RECURSIVE TagsDatas(_)
TagsDatas(n) ==
    {<<>>} \cup
    UNION {{<<[filename |-> f, tags |-> ts]>> \o rest :
                rest \in TagsDatas(n - 1 - Len(ts))} :
            f \in Filenames, ts \in (IF n >= 1 THEN TagLists(n - 1) ELSE {})}

InitFeedback ==
    /\ pc = "input"
    /\ tags_data \in TagsDatas(MaxTagEntries)
    /\ docs_texts \in DocFolders
    /\ feedback_results = <<>>
    /\ ScorerIdle
    /\ LearnIdle
    /\ PipelineIdle
    /\ FileIdle
    /\ call_log = <<>>
    /\ written = <<>>

SimulateFeedback ==
    /\ pc = "input"
    /\ feedback_results' \in simulate_feedback(tags_data, docs_texts)
    /\ pc' = "feedback_simulated"
    /\ UNCHANGED <<tags_data, docs_texts, scorerVars, learnVars>>
    /\ UNCHANGED <<pipelineVars, fileVars>>
    /\ UNCHANGED call_log
    /\ UNCHANGED written

NextFeedback == SimulateFeedback

SpecFeedback == InitFeedback /\ [][NextFeedback]_vars

---------------------------------------------------------------------------
(* Vocabulary of the feedback claims                                       *)

FeedbackSimulated == pc = "feedback_simulated"

\* the places <<i, j>> of the tag records of tags_data
RecordPlaces ==
    UNION {{<<i, j>> : j \in 1..Len(tags_data[i].tags)} :
              i \in 1..Len(tags_data)}

\* the text simulate_feedback scores the tags of item i against
ScoredText(i) ==
    IF tags_data[i].filename \in DOMAIN docs_texts
    THEN docs_texts[tags_data[i].filename]
    ELSE <<>>

\* 0.5 * tfidf_score + 0.2 * frequency_score + 0.3 * position_score of the
\* record at <<i, j>>, in hundred-thousandths
CombinedAt(i, j) ==
    5 * tags_data[i].tags[j].tfidf_score
    + 2 * calculate_frequency_score(tags_data[i].tags[j].tag,
                                    clean_text(ScoredText(i)))
    + 3 * calculate_position_score(tags_data[i].tags[j].tag, ScoredText(i))

(* C1: every record of simulate_feedback is approved exactly when          *)
(* 0.5 * tfidf_score + 0.2 * frequency_score + 0.3 * position_score is at  *)
(* least 0.35, a combined score of exactly 0.35 included, and is rejected  *)
(* otherwise; the recorded relevance_score is that combination to 4        *)
(* decimal places.                                                         *)
C1_CombinedThreshold ==
    FeedbackSimulated =>
        \A ij \in RecordPlaces :
            \A c \in {CombinedAt(ij[1], ij[2])},
               r \in {feedback_results[ij[1]].feedback[ij[2]]} :
                /\ r.status = "approved" <=> c >= 35000
                /\ r.status = "rejected" <=> c < 35000
                /\ 10 * r.relevance_score - c \in -5..5

\* a record whose combined score is exactly 0.35: 0.5 * 0.7 + 0 + 0
C1_Witness ==
    /\ FeedbackSimulated
    /\ \E ij \in RecordPlaces :
          /\ CombinedAt(ij[1], ij[2]) = 35000
          /\ feedback_results[ij[1]].feedback[ij[2]].status = "approved"

\* the tag record at <<i, j>> of tags_data and the record made from it
TagDataAt(ij) == tags_data[ij[1]].tags[ij[2]]
ResultAt(ij) == feedback_results[ij[1]].feedback[ij[2]]

(* C12: the three signal weights sum to 1, so a record whose tfidf_score   *)
(* is in [0, 1] gets a relevance_score in [0, 1]; nothing is clamped: a    *)
(* combination above 1 or below 0 is recorded as it is.                    *)
C12_RelevanceBounded ==
    /\ TFIDF_WEIGHT + FREQUENCY_WEIGHT + POSITION_WEIGHT = 10
    /\ FeedbackSimulated =>
        \A ij \in RecordPlaces :
            \A t \in {TagDataAt(ij).tfidf_score},
               r \in {ResultAt(ij).relevance_score},
               c \in {CombinedAt(ij[1], ij[2])} :
                /\ (0 <= t /\ t <= ScoreScale) => (0 <= r /\ r <= ScoreScale)
                /\ c >= 10 * ScoreScale + 10 => r > ScoreScale
                /\ c <= -10 => r < 0

\* tfidf_score 1.0 and the tag in the title: the largest in-range records
C12_Witness ==
    /\ FeedbackSimulated
    /\ \E ij \in RecordPlaces :
          /\ TagDataAt(ij).tfidf_score = ScoreScale
          /\ calculate_position_score(TagDataAt(ij).tag, ScoredText(ij[1]))
                 = POSITION_TITLE
          /\ ResultAt(ij).relevance_score > 8000
          /\ ResultAt(ij).relevance_score <= ScoreScale

\* tfidf_score 2.1: a relevance_score above 1; tfidf_score -0.3 for a
\* document that is missing: a relevance_score below 0
C12_WitnessOutside ==
    /\ FeedbackSimulated
    /\ \E ij \in RecordPlaces :
          /\ TagDataAt(ij).tfidf_score = 21000
          /\ ResultAt(ij).relevance_score > ScoreScale
    /\ \E ij \in RecordPlaces :
          /\ TagDataAt(ij).tfidf_score = -3000
          /\ ResultAt(ij).relevance_score = -1500

---------------------------------------------------------------------------
(* Inputs and specification of the weight learner                          *)

FeedbackRecords ==
    {[tag |-> t, status |-> st, relevance_score |-> 5000] :
        t \in {api, API, tax}, st \in {"approved", "rejected"}}

FeedbackLists_In(n) == UNION {[1..k -> FeedbackRecords] : k \in 0..n}

\* the feedback.json contents of at most n entries
RECURSIVE FeedbackDatas(_)
FeedbackDatas(n) ==
    {<<>>} \cup
    UNION {{<<[filename |-> "a.md", feedback |-> fs]>> \o rest :
                rest \in FeedbackDatas(n - 1 - Len(fs))} :
            fs \in (IF n >= 1 THEN FeedbackLists_In(n - 1) ELSE {})}

\* the feedback of a later learning cycle
LaterFeedbackDatas ==
    {<<>>,
     <<[filename |-> "b.txt",
        feedback |-> <<[tag |-> tax, status |-> "approved",
                        relevance_score |-> 5000]>>]>>,
     <<[filename |-> "b.txt",
        feedback |-> <<[tag |-> API, status |-> "rejected",
                        relevance_score |-> 5000],
                       [tag |-> api, status |-> "approved",
                        relevance_score |-> 5000]>>]>>}

\* feedback with one malformed entry next to a well-formed record: a record
\* without "tag", a record without "status", an item without "feedback"
TaxApproved == [tag |-> tax, status |-> "approved", relevance_score |-> 5000]

MalformedFeedbackDatas ==
    {<<[filename |-> "a.md",
        feedback |-> <<[status |-> "approved", relevance_score |-> 5000],
                       TaxApproved>>]>>,
     <<[filename |-> "a.md",
        feedback |-> <<TaxApproved,
                       [tag |-> API, relevance_score |-> 5000]>>]>>,
     <<[filename |-> "a.md", feedback |-> <<TaxApproved>>],
       [filename |-> "b.txt"]>>}

\* feedback with a status that is neither "approved" nor "rejected"
UnknownStatusFeedbackDatas ==
    {<<[filename |-> "a.md",
        feedback |-> <<[tag |-> api, status |-> "approved",
                        relevance_score |-> 5000],
                       [tag |-> API, status |-> "maybe",
                        relevance_score |-> 5000]>>]>>,
     <<[filename |-> "a.md",
        feedback |-> <<[tag |-> tax, status |-> "Approved",
                        relevance_score |-> 5000]>>]>>,
     <<[filename |-> "a.md", feedback |-> <<TaxApproved>>],
       [filename |-> "b.txt",
        feedback |-> <<[tag |-> tax, status |-> "",
                        relevance_score |-> 5000]>>]>>}

InitLearn ==
    /\ pc = "input"
    /\ feedback_data \in FeedbackDatas(MaxFeedbackEntries)
                          \cup MalformedFeedbackDatas
                          \cup UnknownStatusFeedbackDatas
    /\ tag_rates = <<>>
    /\ tag_weights = <<>>
    /\ learn_calls = 0
    /\ ScorerIdle
    /\ FeedbackIdle
    /\ PipelineIdle
    /\ FileIdle
    /\ call_log = <<>>
    /\ written = <<>>

\* the call returns the rates, or ends with the KeyError and returns nothing
ComputeTagStats ==
    /\ pc = "input"
    /\ IF RaisesKeyError(feedback_data)
       THEN /\ pc' = "raised"
            /\ UNCHANGED tag_rates
       ELSE /\ tag_rates' = compute_tag_stats(feedback_data)
            /\ pc' = "rates_ready"
    /\ learn_calls' = learn_calls + 1
    /\ UNCHANGED <<feedback_data, tag_weights, scorerVars, feedbackVars>>
    /\ UNCHANGED <<pipelineVars, fileVars>>
    /\ UNCHANGED call_log
    /\ UNCHANGED written

DeriveTagWeights ==
    /\ pc = "rates_ready"
    /\ tag_weights' = derive_tag_weights(tag_rates)
    /\ pc' = "weights_derived"
    /\ UNCHANGED <<feedback_data, tag_rates, learn_calls>>
    /\ UNCHANGED <<scorerVars, feedbackVars>>
    /\ UNCHANGED <<pipelineVars, fileVars>>
    /\ UNCHANGED call_log
    /\ UNCHANGED written

\* the next learning cycle is given its feedback
NextFeedbackData ==
    /\ pc \in {"weights_derived", "raised"}
    /\ learn_calls < MaxLearnCalls
    /\ feedback_data' \in LaterFeedbackDatas \cup MalformedFeedbackDatas
                           \cup UnknownStatusFeedbackDatas
    /\ pc' = "input"
    /\ UNCHANGED <<tag_rates, tag_weights, learn_calls>>
    /\ UNCHANGED <<scorerVars, feedbackVars>>
    /\ UNCHANGED <<pipelineVars, fileVars>>
    /\ UNCHANGED call_log
    /\ UNCHANGED written

NextLearn == ComputeTagStats \/ DeriveTagWeights \/ NextFeedbackData

SpecLearn == InitLearn /\ [][NextLearn]_vars

\* derive_tag_weights on rate mappings given directly
PercentRates == {[num |-> k, den |-> 100] : k \in 0..100}

RateMaps == UNION {[ts -> PercentRates] : ts \in SUBSET {api, tax}}

InitWeights ==
    /\ pc = "rates_ready"
    /\ feedback_data = <<>>
    /\ tag_rates \in RateMaps
    /\ tag_weights = <<>>
    /\ learn_calls = 0
    /\ ScorerIdle
    /\ FeedbackIdle
    /\ PipelineIdle
    /\ FileIdle
    /\ call_log = <<>>
    /\ written = <<>>

NextWeights == DeriveTagWeights

SpecWeights == InitWeights /\ [][NextWeights]_vars

---------------------------------------------------------------------------
(* Vocabulary of the learning claims                                       *)

RatesReady == pc \in {"rates_ready", "weights_derived"}

WeightsDerived == pc = "weights_derived"

\* the places <<i, j>> of the records of feedback_data
FeedbackPlaces ==
    UNION {{<<i, j>> : j \in 1..Len(feedback_data[i].feedback)} :
              i \in 1..Len(feedback_data)}

RecordAt(ij) == feedback_data[ij[1]].feedback[ij[2]]

\* the records of this call that carry the tag k, letter case ignored
PlacesOfTag(k) == {ij \in FeedbackPlaces : Lower(RecordAt(ij).tag) = k}

ApprovedPlacesOfTag(k) ==
    {ij \in PlacesOfTag(k) : RecordAt(ij).status = "approved"}

\* the records of this call that carry exactly the spelling t
PlacesOfSpelling(t) == {ij \in FeedbackPlaces : RecordAt(ij).tag = t}

(* C2: derive_tag_weights gives a rate of at least 0.80 the weight 1.3,    *)
(* else one of at least 0.50 the weight 1.1, else one of at least 0.20 the *)
(* weight 0.9, else 0.5; the rates 0.80, 0.50 and 0.20 themselves fall in  *)
(* the higher tier, 0.79 gives 1.1 and 0.19 gives 0.5.                     *)
C2_ThresholdTiers ==
    WeightsDerived =>
        \A t \in DOMAIN tag_rates :
            \A n \in {tag_rates[t].num}, d \in {tag_rates[t].den},
               w \in {tag_weights[t]} :
                /\ w = 13 <=> 5 * n >= 4 * d
                /\ w = 11 <=> (2 * n >= d /\ 5 * n < 4 * d)
                /\ w = 9 <=> (5 * n >= d /\ 2 * n < d)
                /\ w = 5 <=> 5 * n < d
                /\ (n = 80 /\ d = 100) => w = 13
                /\ (n = 50 /\ d = 100) => w = 11
                /\ (n = 20 /\ d = 100) => w = 9
                /\ (n = 79 /\ d = 100) => w = 11
                /\ (n = 19 /\ d = 100) => w = 5

\* the rates 0.80 and 0.19 in one mapping
C2_Witness ==
    /\ WeightsDerived
    /\ DOMAIN tag_rates = {api, tax}
    /\ tag_rates[api] = [num |-> 80, den |-> 100]
    /\ tag_rates[tax] = [num |-> 19, den |-> 100]
    /\ tag_weights[api] = 13
    /\ tag_weights[tax] = 5

(* C3: every tag compute_tag_stats emits has the rate approved / (approved *)
(* + rejected) counted over the records of the feedback given to this call *)
(* and over nothing else; its total is at least 1 and its rate is in       *)
(* [0, 1].                                                                 *)
C3_RateOfThisCall ==
    RatesReady =>
        \A k \in DOMAIN tag_rates :
            \A a \in {Cardinality(ApprovedPlacesOfTag(k))},
               n \in {Cardinality(PlacesOfTag(k))} :
                /\ n >= 1
                /\ tag_rates[k].den > 0
                /\ tag_rates[k].num * n = a * tag_rates[k].den
                /\ tag_rates[k].num >= 0
                /\ tag_rates[k].num <= tag_rates[k].den

\* the second call: the first call's feedback held tags this one does not
C3_Witness ==
    /\ pc = "rates_ready"
    /\ learn_calls = 2
    /\ LET mixed == [filename |-> "b.txt",
                     feedback |-> <<[tag |-> API, status |-> "rejected",
                                     relevance_score |-> 5000],
                                    [tag |-> api, status |-> "approved",
                                     relevance_score |-> 5000]>>]
       IN  feedback_data = <<mixed>>
    /\ tax \in DOMAIN tag_weights
    /\ DOMAIN tag_rates = {api}
    /\ tag_rates[api] = [num |-> 1, den |-> 2]

(* C4: the keys of the mapping compute_tag_stats returns are exactly the   *)
(* lower-cased tags of the records given to it; spellings that differ only *)
(* in letter case share one entry whose count is the sum of theirs; empty  *)
(* feedback gives the empty mapping.                                       *)
C4_KeysAreLowerCasedTags ==
    RatesReady =>
        /\ DOMAIN tag_rates = {Lower(RecordAt(ij).tag) : ij \in FeedbackPlaces}
        /\ feedback_data = <<>> => tag_rates = <<>>
        /\ api \in DOMAIN tag_rates =>
               tag_rates[api].den =
                   Cardinality(PlacesOfSpelling(api))
                   + Cardinality(PlacesOfSpelling(API))

\* "API" and "api" in two documents, merged into one entry
C4_Witness ==
    /\ pc = "rates_ready"
    /\ Len(feedback_data) = 2
    /\ Cardinality(PlacesOfSpelling(API)) = 1
    /\ Cardinality(PlacesOfSpelling(api)) = 1
    /\ DOMAIN tag_rates = {api}
    /\ tag_rates[api].den = 2

(* C14: derive_tag_weights returns a mapping with exactly the keys of the  *)
(* rate mapping given to it, the empty mapping for the empty one; every    *)
(* value is one of 0.5, 0.9, 1.1, 1.3 and depends on that tag's rate only: *)
(* tags with equal rates get equal weights, whatever else is in the        *)
(* mapping.                                                                *)
C14_SameKeysDiscreteValues ==
    WeightsDerived =>
        /\ DOMAIN tag_weights = DOMAIN tag_rates
        /\ tag_rates = <<>> => tag_weights = <<>>
        /\ \A t \in DOMAIN tag_weights : tag_weights[t] \in {5, 9, 11, 13}
        /\ \A t \in DOMAIN tag_rates, u \in DOMAIN tag_rates :
               tag_rates[t].num * tag_rates[u].den
                   = tag_rates[u].num * tag_rates[t].den
               => tag_weights[t] = tag_weights[u]

\* a never-approved tag next to an always-approved one: both are kept
C14_Witness ==
    /\ WeightsDerived
    /\ DOMAIN tag_rates = {api, tax}
    /\ tag_rates[api].num = 0
    /\ tag_rates[tax].num = tag_rates[tax].den
    /\ DOMAIN tag_weights = {api, tax}
    /\ tag_weights[api] = 5
    /\ tag_weights[tax] = 13

\* the empty rate mapping
C14_WitnessEmpty ==
    /\ WeightsDerived
    /\ tag_rates = <<>>
    /\ tag_weights = <<>>

\* compute_tag_stats has been called on feedback_data and has ended
StatsCallEnded == pc \in {"rates_ready", "raised"}

\* the records of feedback_data that have both "tag" and "status"
WellFormedRecords ==
    UNION {{data_i.feedback[j] :
               j \in {k \in 1..Len(data_i.feedback) :
                         {"tag", "status"} \subseteq DOMAIN data_i.feedback[k]}} :
           data_i \in {feedback_data[i] :
                          i \in {k \in 1..Len(feedback_data) :
                                    "feedback" \in DOMAIN feedback_data[k]}}}

(* C15: a malformed record in the feedback (a record without "tag" or      *)
(* "status", an item without "feedback") does not abort compute_tag_stats: *)
(* the call returns, and the rates it returns cover the tags of all        *)
(* well-formed records.                                                    *)
C15_BadRecordSkipped ==
    StatsCallEnded =>
        /\ pc # "raised"
        /\ \A f \in WellFormedRecords : Lower(f.tag) \in DOMAIN tag_rates

\* what the code does: the call ends with a KeyError exactly when some
\* entry is malformed, and then returns no rates
RaisedIffMalformed ==
    StatsCallEnded =>
        /\ pc = "raised" <=> feedback_data \in MalformedFeedbackDatas
        /\ pc = "raised" => RaisesKeyError(feedback_data)

\* a first call on feedback whose first record has no "tag": KeyError, and
\* the well-formed record that follows it gets no rate
TagKeyErrorRaised ==
    /\ pc = "raised"
    /\ learn_calls = 1
    /\ "tag" \notin DOMAIN feedback_data[1].feedback[1]
    /\ TaxApproved \in WellFormedRecords
    /\ tag_rates = <<>>

---------------------------------------------------------------------------
(* Inputs and specification of run_pipeline: cycles of generate_tags,      *)
(* simulate_feedback and the learner over the files of the output          *)
(* directory.                                                              *)

therapist == L_word

\* "# API" / "api taxes", and "taxes" / "therapist"
PipeDocA == Join(<<L_md_header, api \o <<" ">> \o taxes>>)
PipeDocB == Join(<<taxes, therapist>>)

\* a corpus: the files of the documents folder and what the vectorizer
\* gives for them (scores to 4 decimal places)
CorpusTwoDocs ==
    [documents |-> <<[filename |-> "a.md", content |-> PipeDocA],
                     [filename |-> "b.txt", content |-> PipeDocB]>>,
     feature_names |-> <<api, tax, therapist>>,
     tfidf_matrix |-> <<<<9422, 3352, 0>>, <<0, 5797, 8148>>>>]

CorpusOneDoc ==
    [documents |-> <<[filename |-> "a.md", content |-> DocTitle]>>,
     feature_names |-> <<api>>,
     tfidf_matrix |-> <<<<10000>>>>]

CorpusSwapped ==
    [documents |-> <<[filename |-> "a.md", content |-> PipeDocB],
                     [filename |-> "b.txt", content |-> PipeDocA]>>,
     feature_names |-> <<api, tax, therapist>>,
     tfidf_matrix |-> <<<<0, 5797, 8148>>, <<9422, 3352, 0>>>>]

\* "api", and "taxes" / "therapist": no term in both, equal scores in b.txt
CorpusTied ==
    [documents |-> <<[filename |-> "a.md", content |-> api],
                     [filename |-> "b.txt", content |-> PipeDocB]>>,
     feature_names |-> <<api, tax, therapist>>,
     tfidf_matrix |-> <<<<10000, 0, 0>>, <<0, 7071, 7071>>>>]

\* "xx" / "API X": the tag in an upper-case line that is not the first
CorpusCaps ==
    [documents |-> <<[filename |-> "a.md",
                      content |-> Join(<<L_intro, L_upper>>)]>>,
     feature_names |-> <<api>>,
     tfidf_matrix |-> <<<<10000>>>>]

\* a folder without any .txt or .md file
CorpusEmpty ==
    [documents |-> <<>>, feature_names |-> <<>>, tfidf_matrix |-> <<>>]

Corpora ==
    {CorpusTwoDocs, CorpusOneDoc, CorpusSwapped, CorpusTied, CorpusCaps,
     CorpusEmpty}

OutputDirs == {"outputs", "results"}
OutputNames == {"tags.json", "feedback.json", "tag_weights.json"}
Paths == {PathJoin(d, n) : d \in OutputDirs, n \in OutputNames}

\* the working directory before the first cycle: no output yet, or the
\* weight table an earlier run left at the default path
StaleTable == (tax :> 5) @@ (therapist :> 13)

InitialFiles ==
    {[p \in Paths |-> NoFile],
     [p \in Paths |->
         IF p = DEFAULT_WEIGHTS_PATH
         THEN FileOf(json_dump_object(StaleTable))
         ELSE NoFile]}

tags_file == PathJoin(output_dir, "tags.json")
feedback_file == PathJoin(output_dir, "feedback.json")
weights_file == PathJoin(output_dir, "tag_weights.json")

InitPipeline ==
    /\ pc = "start"
    /\ output_dir \in OutputDirs
    /\ top_k \in 1..MaxTopK
    /\ \E c \in Corpora :
          /\ documents = c.documents
          /\ feature_names = c.feature_names
          /\ tfidf_matrix = c.tfidf_matrix
    /\ files \in InitialFiles
    /\ loaded_weights = <<>>
    /\ tags_output = <<>>
    /\ run_status = ""
    /\ cycles = 1
    /\ ScorerIdle
    /\ FeedbackIdle
    /\ LearnIdle
    /\ FileIdle
    /\ call_log = <<>>
    /\ written = <<>>

\* pipeline.py line 44: `if not documents`
NoDocumentsNever(docs) == FALSE

NoDocuments(docs) == docs = <<>>

\* pipeline.py lines 38-51; without documents the ValueError of line 45
\* ends the run in the except clause of line 113
GenerateTagsStage ==
    /\ pc = "start"
    /\ IF NoDocuments(documents)
       THEN /\ run_status' = "error"
            /\ pc' = "done"
            /\ UNCHANGED <<loaded_weights, tags_output, files, written>>
       ELSE /\ loaded_weights' = load_tag_weights(files, DEFAULT_WEIGHTS_PATH)
            /\ tags_output' = generate_tags(documents, feature_names,
                                            tfidf_matrix, top_k,
                                            loaded_weights')
            /\ files' = save_tags_to_json(files, tags_output', tags_file)
            /\ written' = Append(written, tags_file)
            /\ pc' = "tags_saved"
            /\ UNCHANGED run_status
    /\ UNCHANGED <<output_dir, top_k, documents, feature_names, tfidf_matrix,
                   cycles>>
    /\ UNCHANGED <<scorerVars, feedbackVars, learnVars, fileVars>>
    /\ UNCHANGED call_log

\* pipeline.py lines 56-61
CollectFeedbackStage ==
    /\ pc = "tags_saved"
    /\ tags_data' = load_tags(files, tags_file)
    /\ docs_texts' = load_docs_for_feedback(documents)
    /\ feedback_results' \in simulate_feedback(tags_data', docs_texts')
    /\ files' = save_feedback(files, feedback_results', feedback_file)
    /\ written' = Append(written, feedback_file)
    /\ pc' = "feedback_saved"
    /\ UNCHANGED <<output_dir, top_k, documents, feature_names, tfidf_matrix,
                   loaded_weights, tags_output, run_status, cycles>>
    /\ UNCHANGED <<scorerVars, learnVars, fileVars>>
    /\ UNCHANGED call_log

\* pipeline.py lines 74-111; a KeyError of compute_tag_stats ends the run
\* in the except clause
LearnStage ==
    /\ pc = "feedback_saved"
    /\ feedback_data' = load_feedback(files, feedback_file)
    /\ IF RaisesKeyError(feedback_data')
       THEN /\ run_status' = "error"
            /\ UNCHANGED <<tag_rates, tag_weights, files, written>>
       ELSE /\ tag_rates' = compute_tag_stats(feedback_data')
            /\ tag_weights' = derive_tag_weights(tag_rates')
            /\ files' = save_weights(files, tag_weights', weights_file)
            /\ written' = Append(written, weights_file)
            /\ run_status' = "success"
    /\ pc' = "done"
    /\ UNCHANGED <<output_dir, top_k, documents, feature_names, tfidf_matrix,
                   loaded_weights, tags_output, cycles, learn_calls>>
    /\ UNCHANGED <<scorerVars, feedbackVars, fileVars>>
    /\ UNCHANGED call_log

\* run_pipeline is called again with the same arguments; the documents
\* folder may have changed in between
NextCycle ==
    /\ pc = "done"
    /\ cycles < MaxCycles
    /\ cycles' = cycles + 1
    /\ \E c \in Corpora :
          /\ documents' = c.documents
          /\ feature_names' = c.feature_names
          /\ tfidf_matrix' = c.tfidf_matrix
    /\ run_status' = ""
    /\ pc' = "start"
    /\ written' = <<>>
    /\ UNCHANGED <<output_dir, top_k, files, loaded_weights, tags_output>>
    /\ UNCHANGED <<scorerVars, feedbackVars, learnVars, fileVars>>
    /\ UNCHANGED call_log

NextPipeline ==
    GenerateTagsStage \/ CollectFeedbackStage \/ LearnStage \/ NextCycle

SpecPipeline == InitPipeline /\ [][NextPipeline]_vars

---------------------------------------------------------------------------
(* Vocabulary of the pipeline claims                                       *)

\* the tag-generation stage of this cycle has run
TagsGenerated == pc \in {"tags_saved", "feedback_saved"}

\* the learning stage of this cycle has saved its table
CycleLearned == pc = "done" /\ run_status = "success"

\* the table the file at path p holds
TableAt(p) == json_load_object(files[p].text)

HoldsTable(p) == files[p].exists /\ IsJsonObject(files[p].text)

\* the lower-cased tags of the feedback of the latest cycle
LatestFeedbackTags ==
    UNION {{Lower(feedback_results[i].feedback[j].tag) :
                j \in 1..Len(feedback_results[i].feedback)} :
           i \in 1..Len(feedback_results)}

(* C17: after every learning cycle the weight table on disk is             *)
(* derive_tag_weights(compute_tag_stats(feedback of that cycle)) and       *)
(* nothing else: its keys are the tags of that feedback only, so a tag of  *)
(* an earlier table that is not in the latest feedback is gone, and every  *)
(* weight is one of 0.5, 0.9, 1.1, 1.3, never a product of weights.        *)
C17_TableReplacedWholesale ==
    CycleLearned =>
        /\ HoldsTable(weights_file)
        /\ TableAt(weights_file)
               = derive_tag_weights(compute_tag_stats(feedback_results))
        /\ DOMAIN TableAt(weights_file) = LatestFeedbackTags
        /\ \A k \in DOMAIN TableAt(weights_file) :
               TableAt(weights_file)[k] \in {5, 9, 11, 13}

\* the second cycle in the default directory: the table this cycle loaded
\* (the one on disk when it began) held "tax"; the table it saved does not
C17_Witness ==
    /\ CycleLearned
    /\ cycles >= 2
    /\ output_dir = "outputs"
    /\ tax \in DOMAIN loaded_weights
    /\ TableAt(weights_file) = (api :> 13)

(* C18: for any output_dir, the table the tag-generation stage of cycle    *)
(* n + 1 loads is the table the learning stage of cycle n saved.           *)
C18_NextCycleLoadsSavedTable ==
    (TagsGenerated /\ cycles >= 2 /\ HoldsTable(weights_file)) =>
        loaded_weights = TableAt(weights_file)

\* what the code does: the table is loaded from the default path, so the
\* saved table comes back when output_dir is "outputs"
DefaultDirFeedsBack ==
    TagsGenerated =>
        /\ loaded_weights = load_tag_weights(files, DEFAULT_WEIGHTS_PATH)
        /\ (output_dir = "outputs" /\ HoldsTable(weights_file)) =>
               loaded_weights = TableAt(weights_file)

\* output_dir "results": cycle 1 saved a table there, cycle 2 loaded none
SavedTableNotLoaded ==
    /\ TagsGenerated
    /\ cycles = 2
    /\ output_dir = "results"
    /\ HoldsTable(weights_file)
    /\ TableAt(weights_file) = tag_weights
    /\ tag_weights # <<>>
    /\ ~files[DEFAULT_WEIGHTS_PATH].exists
    /\ loaded_weights = <<>>

\* the place of the tag of an emitted record in the vocabulary
FeatureIndex(t) == CHOOSE i \in 1..Len(feature_names) : feature_names[i] = t

\* the largest score of a row
RowMax(row) ==
    CHOOSE m \in {row[i] : i \in 1..Len(row)} :
        \A i \in 1..Len(row) : row[i] <= m

(* C19: the adjusted score of every term generate_tags emits is its        *)
(* tf-idf score times the weight the loaded table holds for the            *)
(* lower-cased term, and times exactly 1.0 when the table does not hold    *)
(* the term; with an empty or missing table adjusted and original scores   *)
(* are equal for every term, so the best term of a document is the one     *)
(* with the largest tf-idf score.                                          *)
C19_AdjustedByLoadedWeight ==
    TagsGenerated =>
        \A idx \in 1..Len(tags_output) :
            /\ \A i \in 1..Len(tags_output[idx].tags) :
                  \A r \in {tags_output[idx].tags[i]} :
                    /\ r.tfidf_score = tfidf_matrix[idx][FeatureIndex(r.tag)]
                    /\ Lower(r.tag) \in DOMAIN loaded_weights =>
                          r.adjusted_tfidf_score
                              = r.tfidf_score * loaded_weights[Lower(r.tag)]
                    /\ Lower(r.tag) \notin DOMAIN loaded_weights =>
                          r.adjusted_tfidf_score = r.tfidf_score * 10
            /\ loaded_weights = <<>> =>
                  /\ Len(tags_output[idx].tags) >= 1
                  /\ tags_output[idx].tags[1].adjusted_tfidf_score
                         = 10 * RowMax(tfidf_matrix[idx])

\* a table that holds "tax" and "therapist" but not "api": "api" is emitted
\* with its own score, "therapist" with 1.3 times its score
C19_Witness ==
    /\ TagsGenerated
    /\ DOMAIN loaded_weights = {tax, therapist}
    /\ \E idx \in 1..Len(tags_output) :
          \E i \in 1..Len(tags_output[idx].tags) :
             /\ tags_output[idx].tags[i].tag = api
             /\ tags_output[idx].tags[i].adjusted_tfidf_score = 94220
    /\ \E idx \in 1..Len(tags_output) :
          \E i \in 1..Len(tags_output[idx].tags) :
             /\ tags_output[idx].tags[i].tag = therapist
             /\ tags_output[idx].tags[i].tfidf_score = 8148
             /\ tags_output[idx].tags[i].adjusted_tfidf_score = 8148 * 13

\* no table at the default path: every adjusted score is the original one
C19_WitnessNoTable ==
    /\ TagsGenerated
    /\ ~files[DEFAULT_WEIGHTS_PATH].exists
    /\ loaded_weights = <<>>
    /\ tags_output # <<>>
    /\ \A idx \in 1..Len(tags_output) :
          /\ tags_output[idx].tags # <<>>
          /\ \A i \in 1..Len(tags_output[idx].tags) :
                tags_output[idx].tags[i].adjusted_tfidf_score
                    = 10 * tags_output[idx].tags[i].tfidf_score

---------------------------------------------------------------------------
(* A save_weights call and a load_tag_weights call on the same file, by    *)
(* two processes.  open(path, "w") empties the file; the text reaches the  *)
(* file as the buffer is flushed, the rest of it at close.  The reader     *)
(* takes the text that is in the file when it reads.                       *)

WeightTables == {(api :> 13), (api :> 13) @@ (tax :> 9), StaleTable}

InitWeightsFile ==
    /\ pc = "weights_file"
    /\ \E t \in WeightTables \cup {<<>>} :
          /\ files = [p \in Paths |->
                         IF p = DEFAULT_WEIGHTS_PATH /\ t # <<>>
                         THEN FileOf(json_dump_object(t))
                         ELSE NoFile]
          /\ tag_weights = t
          /\ replaced_table = t
    /\ output_dir = "outputs"
    /\ top_k = 0
    /\ documents = <<>>
    /\ feature_names = <<>>
    /\ tfidf_matrix = <<>>
    /\ loaded_weights = <<>>
    /\ tags_output = <<>>
    /\ run_status = ""
    /\ cycles = 0
    /\ writer_pc = "idle"
    /\ writer_pending = <<>>
    /\ reader_pc = "idle"
    /\ reader_result = <<>>
    /\ feedback_data = <<>>
    /\ tag_rates = <<>>
    /\ learn_calls = 0
    /\ ScorerIdle
    /\ FeedbackIdle
    /\ call_log = <<>>
    /\ written = <<>>

\* learn_from_feedback.py line 81: open(output_path, "w")
WriterOpen ==
    /\ pc = "weights_file"
    /\ writer_pc = "idle"
    /\ cycles < MaxCycles
    /\ cycles' = cycles + 1
    /\ tag_weights' \in WeightTables
    /\ replaced_table' = load_tag_weights(files, weights_file)
    /\ files' = WriteFile(files, weights_file, <<>>)
    /\ writer_pending' = json_dump_object(tag_weights')
    /\ writer_pc' = "writing"
    /\ UNCHANGED <<pc, scorerVars, feedbackVars, feedback_data, tag_rates,
                   learn_calls, output_dir, top_k, documents, feature_names,
                   tfidf_matrix, loaded_weights, tags_output, run_status,
                   reader_pc, reader_result>>
    /\ UNCHANGED call_log
    /\ UNCHANGED written

\* line 82: json.dump writes; a full buffer puts the next part of the text
\* into the file
WriterFlush ==
    /\ pc = "weights_file"
    /\ writer_pc = "writing"
    /\ \E n \in 1..Len(writer_pending) :
          /\ files' = WriteFile(files, weights_file,
                                files[weights_file].text
                                    \o SubSeq(writer_pending, 1, n))
          /\ writer_pending' =
                 SubSeq(writer_pending, n + 1, Len(writer_pending))
    /\ UNCHANGED <<pc, scorerVars, feedbackVars, learnVars, output_dir, top_k,
                   documents, feature_names, tfidf_matrix, loaded_weights,
                   tags_output, run_status, cycles, writer_pc, reader_pc,
                   reader_result, replaced_table>>
    /\ UNCHANGED call_log
    /\ UNCHANGED written

\* the end of the with block: the file is closed, the rest is written
WriterClose ==
    /\ pc = "weights_file"
    /\ writer_pc = "writing"
    /\ files' = WriteFile(files, weights_file,
                          files[weights_file].text \o writer_pending)
    /\ writer_pending' = <<>>
    /\ writer_pc' = "idle"
    /\ UNCHANGED <<pc, scorerVars, feedbackVars, learnVars, output_dir, top_k,
                   documents, feature_names, tfidf_matrix, loaded_weights,
                   tags_output, run_status, cycles, reader_pc, reader_result,
                   replaced_table>>
    /\ UNCHANGED call_log
    /\ UNCHANGED written

\* generate_tags.py line 34: os.path.exists; no file, the empty dict
ReaderExists ==
    /\ pc = "weights_file"
    /\ reader_pc = "idle"
    /\ IF files[DEFAULT_WEIGHTS_PATH].exists
       THEN /\ reader_pc' = "opened"
            /\ UNCHANGED reader_result
       ELSE /\ reader_pc' = "returned"
            /\ reader_result' = <<>>
    /\ UNCHANGED <<pc, scorerVars, feedbackVars, learnVars, pipelineVars,
                   writer_pc, writer_pending, replaced_table>>
    /\ UNCHANGED call_log
    /\ UNCHANGED written

\* lines 35-42: open and json.load; the exception json.load raises on a
\* text that is not a document is caught and the empty dict returned
ReaderLoad ==
    /\ pc = "weights_file"
    /\ reader_pc = "opened"
    /\ reader_result' = load_tag_weights(files, DEFAULT_WEIGHTS_PATH)
    /\ reader_pc' = "returned"
    /\ UNCHANGED <<pc, scorerVars, feedbackVars, learnVars, pipelineVars,
                   writer_pc, writer_pending, replaced_table>>
    /\ UNCHANGED call_log
    /\ UNCHANGED written

\* the next call of load_tag_weights
ReaderCalledAgain ==
    /\ pc = "weights_file"
    /\ reader_pc = "returned"
    /\ reader_pc' = "idle"
    /\ UNCHANGED <<pc, scorerVars, feedbackVars, learnVars, pipelineVars,
                   writer_pc, writer_pending, reader_result, replaced_table>>
    /\ UNCHANGED call_log
    /\ UNCHANGED written

NextWeightsFile ==
    \/ WriterOpen
    \/ WriterFlush
    \/ WriterClose
    \/ ReaderExists
    \/ ReaderLoad
    \/ ReaderCalledAgain

SpecWeightsFile == InitWeightsFile /\ [][NextWeightsFile]_vars

\* a step in which load_tag_weights returns
ReaderReturns == reader_pc # "returned" /\ reader_pc' = "returned"

(* C20: a load_tag_weights call that runs while save_weights is writing    *)
(* returns the complete table that was on disk before the save or the      *)
(* complete new table: never part of a table, and never the empty table    *)
(* because a write is in progress.                                         *)
C20_ReaderSeesWholeTable ==
    [][ReaderReturns =>
          \/ reader_result' = replaced_table
          \/ reader_result' = tag_weights]_vars

\* what the code does: the reader gets the old table only before the file
\* is opened for writing, the new one only once it is written in full, and
\* the empty dict at every moment in between
ReaderFallsBackWhileWriting ==
    [][ReaderReturns =>
          /\ reader_result' \in {replaced_table, tag_weights, <<>>}
          /\ (writer_pc = "writing" /\ writer_pending # <<>>) =>
                 reader_result' = <<>>
          /\ writer_pc = "idle" => reader_result' = tag_weights]_vars

\* a table was on disk, a new one is being written, and the reader has
\* been given the empty dict
EmptyTableDuringWrite ==
    /\ reader_pc = "returned"
    /\ writer_pc = "writing"
    /\ replaced_table # <<>>
    /\ tag_weights # <<>>
    /\ reader_result = <<>>

---------------------------------------------------------------------------
(* Order and splits of the feedback given to compute_tag_stats             *)

\* the orderings of the places 1..n
Orderings(n) == {f \in [1..n -> 1..n] : \A i, j \in 1..n : i # j => f[i] # f[j]}

Reordered(seq, f) == [i \in 1..Len(seq) |-> seq[f[i]]]

\* the feedback lists with their records in every order
RecordOrders(item) ==
    {[filename |-> item.filename, feedback |-> Reordered(item.feedback, f)] :
        f \in Orderings(Len(item.feedback))}

\* the corpora that hold the records of data, documents in the same order
RECURSIVE WithRecordsReordered(_)
WithRecordsReordered(data) ==
    IF data = <<>> THEN {<<>>}
    ELSE {<<e>> \o rest : e \in RecordOrders(Head(data)),
                          rest \in WithRecordsReordered(Tail(data))}

\* every permutation of the documents and of the records inside them
Permuted(data) ==
    {Reordered(d, f) :
        d \in WithRecordsReordered(data), f \in Orderings(Len(data))}

\* the documents of data at the places of S, in order
RECURSIVE DocumentsAt(_, _, _)
DocumentsAt(data, S, i) ==
    IF i > Len(data) THEN <<>>
    ELSE (IF i \in S THEN <<data[i]>> ELSE <<>>) \o DocumentsAt(data, S, i + 1)

\* the counts of two parts added tag by tag
MergeCounts(s1, s2) ==
    [t \in DOMAIN s1 \cup DOMAIN s2 |->
        [approved |-> StatsGet(s1, t).approved + StatsGet(s2, t).approved,
         rejected |-> StatsGet(s1, t).rejected + StatsGet(s2, t).rejected]]

RatesOf(stats) == [t \in DOMAIN stats |-> ApprovalRate(stats[t])]

(* C21: compute_tag_stats returns the same mapping for every permutation   *)
(* of the documents and of the records inside them; for every split of the *)
(* documents into two parts the counts of the whole are the sums of the    *)
(* counts of the parts, whichever part is merged first, and the rates of   *)
(* the merged counts are the rates of the whole.                           *)
C21_OrderAndSplitInvariant ==
    RatesReady =>
        /\ \A d \in Permuted(feedback_data) : compute_tag_stats(d) = tag_rates
        /\ \A S \in SUBSET (1..Len(feedback_data)) :
              \A s1 \in {CountItems(<<>>, DocumentsAt(feedback_data, S, 1))},
                 s2 \in {CountItems(<<>>,
                             DocumentsAt(feedback_data,
                                         (1..Len(feedback_data)) \ S, 1))} :
                /\ MergeCounts(s1, s2) = CountItems(<<>>, feedback_data)
                /\ MergeCounts(s2, s1) = MergeCounts(s1, s2)
                /\ RatesOf(MergeCounts(s1, s2)) = tag_rates

\* two documents; one tag approved in the first and rejected in the second
C21_Witness ==
    /\ pc = "rates_ready"
    /\ Len(feedback_data) = 2
    /\ feedback_data[1].feedback
           = <<[tag |-> API, status |-> "approved", relevance_score |-> 5000]>>
    /\ feedback_data[2].feedback
           = <<[tag |-> api, status |-> "rejected", relevance_score |-> 5000]>>
    /\ Cardinality(Permuted(feedback_data)) = 2
    /\ tag_rates = (api :> [num |-> 1, den |-> 2])

---------------------------------------------------------------------------
(* Shape of the value simulate_feedback returns                            *)

(* C22: simulate_feedback returns one entry per tags item, in the order of *)
(* the items and with their filenames, and in each entry one record per    *)
(* tag of the item, in order and with the tag as given; every record has a *)
(* status "approved" or "rejected" and a relevance_score; no items give    *)
(* the empty list.                                                         *)
C22_OneRecordPerTag ==
    FeedbackSimulated =>
        /\ Len(feedback_results) = Len(tags_data)
        /\ tags_data = <<>> => feedback_results = <<>>
        /\ \A i \in 1..Len(tags_data) :
              /\ DOMAIN feedback_results[i] = {"filename", "feedback"}
              /\ feedback_results[i].filename = tags_data[i].filename
              /\ Len(feedback_results[i].feedback) = Len(tags_data[i].tags)
              /\ \A j \in 1..Len(tags_data[i].tags) :
                    \A r \in {feedback_results[i].feedback[j]} :
                        /\ DOMAIN r = {"tag", "status", "relevance_score"}
                        /\ r.tag = tags_data[i].tags[j].tag
                        /\ r.status \in {"approved", "rejected"}
                        /\ r.relevance_score \in Int

\* two items, the second for a file that is missing, with an approved and
\* a rejected record between them
C22_Witness ==
    /\ FeedbackSimulated
    /\ Len(tags_data) = 2
    /\ tags_data[1].filename = "b.txt"
    /\ tags_data[2].filename = "gone.txt"
    /\ Len(feedback_results) = 2
    /\ feedback_results[1].filename = "b.txt"
    /\ feedback_results[2].filename = "gone.txt"
    /\ \E i \in 1..2 : \E j \in 1..Len(feedback_results[i].feedback) :
          /\ feedback_results[i].feedback[j].tag = tax
          /\ feedback_results[i].feedback[j].status = "rejected"

\* no items
C22_WitnessEmpty ==
    /\ FeedbackSimulated
    /\ tags_data = <<>>
    /\ feedback_results = <<>>

---------------------------------------------------------------------------
(* Selection of the tags of a document                                     *)

\* the adjusted score of the i-th term of the vocabulary in document idx
AdjustedOf(idx, i) ==
    tfidf_matrix[idx][i] * WeightGet(loaded_weights, feature_names[i])

\* the terms of document idx with an adjusted score above 0
PositiveTerms(idx) ==
    {i \in 1..Len(feature_names) : AdjustedOf(idx, i) > 0}

\* the places in the vocabulary of the tags emitted for document idx
EmittedTerms(idx) ==
    {FeatureIndex(tags_output[idx].tags[j].tag) :
        j \in 1..Len(tags_output[idx].tags)}

(* C23: for a non-empty document list and top_k >= 1, generate_tags        *)
(* returns one entry per document in order, each with at most top_k tags;  *)
(* the tags are the terms with the highest adjusted scores, in descending  *)
(* order, and no term with an adjusted score of 0 or less is emitted.      *)
C23_TopTermsByAdjustedScore ==
    TagsGenerated =>
        /\ Len(tags_output) = Len(documents)
        /\ \A idx \in 1..Len(documents) :
            \A out \in {tags_output[idx].tags} :
              /\ tags_output[idx].filename = documents[idx].filename
              /\ Len(out) <= top_k
              /\ Len(out) = Min(top_k, Cardinality(PositiveTerms(idx)))
              /\ Cardinality(EmittedTerms(idx)) = Len(out)
              /\ \A j \in 1..Len(out) :
                    /\ out[j].adjusted_tfidf_score > 0
                    /\ out[j].adjusted_tfidf_score
                           = AdjustedOf(idx, FeatureIndex(out[j].tag))
                    /\ j < Len(out) =>
                          out[j].adjusted_tfidf_score
                              >= out[j + 1].adjusted_tfidf_score
              /\ \A i \in (1..Len(feature_names)) \ EmittedTerms(idx) :
                    \A j \in 1..Len(out) :
                        AdjustedOf(idx, i) <= out[j].adjusted_tfidf_score

\* top_k 1 and two terms with the same tf-idf score: the table makes
\* "therapist" the one that is emitted
C23_Witness ==
    /\ TagsGenerated
    /\ top_k = 1
    /\ loaded_weights = StaleTable
    /\ \E idx \in 1..Len(tags_output) :
          /\ tfidf_matrix[idx] = <<0, 7071, 7071>>
          /\ Len(tags_output[idx].tags) = 1
          /\ tags_output[idx].tags[1].tag = therapist

\* top_k 2 and one term above 0: one tag
C23_WitnessFewer ==
    /\ TagsGenerated
    /\ top_k = 2
    /\ \E idx \in 1..Len(tags_output) :
          /\ tfidf_matrix[idx] = <<10000, 0, 0>>
          /\ Len(tags_output[idx].tags) = 1

---------------------------------------------------------------------------
(* Inputs and specification of the three loaders: one call of load_tags,   *)
(* load_feedback or load_tag_weights on a directory whose files are        *)
(* absent, cut short, empty or whole.                                      *)

StoredTags == generate_tags(CorpusOneDoc.documents, CorpusOneDoc.feature_names,
                            CorpusOneDoc.tfidf_matrix, 1, <<>>)
StoredFeedback ==
    <<[filename |-> "a.md",
       feedback |-> <<[tag |-> api, status |-> "approved",
                       relevance_score |-> 5000]>>]>>

StoredLists == {<<>>, StoredTags, StoredFeedback}
StoredTables == {StaleTable}

\* a text without its last token
CutShort(text) == SubSeq(text, 1, Len(text) - 1)

\* texts json.load raises on: the empty text and documents cut short
UnparsableTexts ==
    {<<>>, CutShort(json_dump_array(StoredFeedback)),
     CutShort(json_dump_object(StaleTable))}

LoadableFiles ==
    {NoFile}
    \cup {FileOf(t) : t \in UnparsableTexts}
    \cup {FileOf(json_dump_array(v)) : v \in StoredLists}
    \cup {FileOf(json_dump_object(v)) : v \in StoredTables}

InitLoad ==
    /\ pc = "start"
    /\ output_dir = "outputs"
    /\ \E t, f, w \in LoadableFiles :
          files = [p \in Paths |->
                      IF p = PathJoin("outputs", "tags.json") THEN t
                      ELSE IF p = PathJoin("outputs", "feedback.json") THEN f
                      ELSE IF p = PathJoin("outputs", "tag_weights.json") THEN w
                      ELSE NoFile]
    /\ top_k = 0
    /\ documents = <<>>
    /\ feature_names = <<>>
    /\ tfidf_matrix = <<>>
    /\ loaded_weights = <<>>
    /\ tags_output = <<>>
    /\ run_status = ""
    /\ cycles = 0
    /\ ScorerIdle
    /\ FeedbackIdle
    /\ LearnIdle
    /\ FileIdle
    /\ call_log = <<>>
    /\ written = <<>>

\* collect_feedback.load_tags(tags_file)
LoadTags ==
    /\ pc = "start"
    /\ \A r \in {load_tags_call(files, tags_file)} :
          IF r.raised # ""
          THEN pc' = "raised" /\ UNCHANGED tags_data
          ELSE pc' = "tags_loaded" /\ tags_data' = r.value
    /\ UNCHANGED <<scorerVars, docs_texts, feedback_results, learnVars,
                   pipelineVars, fileVars>>
    /\ UNCHANGED call_log
    /\ UNCHANGED written

\* learn_from_feedback.load_feedback(feedback_path)
LoadFeedback ==
    /\ pc = "start"
    /\ \A r \in {load_feedback_call(files, feedback_file)} :
          IF r.raised # ""
          THEN pc' = "raised" /\ UNCHANGED feedback_data
          ELSE pc' = "feedback_loaded" /\ feedback_data' = r.value
    /\ UNCHANGED <<scorerVars, feedbackVars, tag_rates, tag_weights,
                   learn_calls, pipelineVars, fileVars>>
    /\ UNCHANGED call_log
    /\ UNCHANGED written

\* generate_tags.load_tag_weights(weights_path)
LoadTagWeights ==
    /\ pc = "start"
    /\ \A r \in {load_tag_weights_call(files, weights_file)} :
          IF r.raised # ""
          THEN pc' = "raised" /\ UNCHANGED loaded_weights
          ELSE pc' = "weights_loaded" /\ loaded_weights' = r.value
    /\ UNCHANGED <<scorerVars, feedbackVars, learnVars, output_dir, top_k,
                   documents, feature_names, tfidf_matrix, files, tags_output,
                   run_status, cycles, fileVars>>
    /\ UNCHANGED call_log
    /\ UNCHANGED written

NextLoad == LoadTags \/ LoadFeedback \/ LoadTagWeights

SpecLoad == InitLoad /\ [][NextLoad]_vars

\* the file at path p is absent or holds a text that is not a document
MissingOrUnparsable(p) ==
    ~files[p].exists \/ files[p].text \in UnparsableTexts

\* v is what a load of path p has to give
LoadedAsStored(p, v) ==
    /\ MissingOrUnparsable(p) => v = <<>>
    /\ \A s \in StoredLists :
          files[p] = FileOf(json_dump_array(s)) => v = s
    /\ \A s \in StoredTables :
          files[p] = FileOf(json_dump_object(s)) => v = s

(* C24: loading a missing or unparsable file never raises: load_tags and   *)
(* load_feedback return the empty list and load_tag_weights the empty      *)
(* mapping, under which every term has the neutral multiplier; loading a   *)
(* well-formed file returns the stored content.                            *)
C24_LoadersNeverRaise ==
    /\ pc # "raised"
    /\ pc = "tags_loaded" => LoadedAsStored(tags_file, tags_data)
    /\ pc = "feedback_loaded" => LoadedAsStored(feedback_file, feedback_data)
    /\ pc = "weights_loaded" =>
          /\ LoadedAsStored(weights_file, loaded_weights)
          /\ MissingOrUnparsable(weights_file) =>
                \A t \in {api, tax, therapist, Lower(L_upper)} :
                    WeightGet(loaded_weights, t) = NEUTRAL_WEIGHT

\* a feedback.json cut short has been loaded
C24_Witness ==
    /\ pc = "feedback_loaded"
    /\ files[feedback_file] = FileOf(CutShort(json_dump_array(StoredFeedback)))
    /\ feedback_data = <<>>

\* no tags.json
C24_WitnessMissing ==
    /\ pc = "tags_loaded"
    /\ ~files[tags_file].exists
    /\ tags_data = <<>>

\* a weight table, a tags list and a feedback list read back
C24_WitnessWeights ==
    /\ pc = "weights_loaded"
    /\ files[weights_file] = FileOf(json_dump_object(StaleTable))
    /\ loaded_weights = StaleTable

C24_WitnessTags ==
    /\ pc = "tags_loaded"
    /\ files[tags_file] = FileOf(json_dump_array(StoredTags))
    /\ tags_data = StoredTags
    /\ tags_data # <<>>

---------------------------------------------------------------------------
(* Inputs and specification of the four pure functions called in any       *)
(* order: the caller holds one set of arguments at a time and may replace  *)
(* it between calls; call_log keeps every call with its arguments as they  *)
(* were before and after it and the value it returned.                     *)

PureInputsA ==
    [tag |-> api, raw_text |-> DocHeader,
     cleaned_text |-> api \o <<" ">> \o taxes \o <<" ">> \o api,
     feedback_data |->
         <<[filename |-> "a.md",
            feedback |-> <<[tag |-> api, status |-> "approved",
                            relevance_score |-> 5000]>>]>>,
     tag_rates |-> (api :> [num |-> 1, den |-> 1])]

PureInputsB ==
    [tag |-> tax, raw_text |-> DocParagraph,
     cleaned_text |-> taxes,
     feedback_data |->
         <<[filename |-> "b.txt",
            feedback |-> <<[tag |-> tax, status |-> "rejected",
                            relevance_score |-> 1000],
                           [tag |-> API, status |-> "approved",
                            relevance_score |-> 5000]>>]>>,
     tag_rates |-> (tax :> [num |-> 1, den |-> 2])]

PureInputs == {PureInputsA, PureInputsB}

InitPure ==
    /\ pc = "pure"
    /\ \E in \in PureInputs :
          /\ tag = in.tag
          /\ raw_text = in.raw_text
          /\ cleaned_text = in.cleaned_text
          /\ feedback_data = in.feedback_data
          /\ tag_rates = in.tag_rates
    /\ pos_score = 0
    /\ freq_score = 0
    /\ tag_weights = <<>>
    /\ learn_calls = 0
    /\ FeedbackIdle
    /\ PipelineIdle
    /\ FileIdle
    /\ call_log = <<>>
    /\ written = <<>>

\* the caller takes other arguments
NewInputs ==
    /\ pc = "pure"
    /\ Len(call_log) < MaxCalls
    /\ \E in \in PureInputs :
          /\ tag' = in.tag
          /\ raw_text' = in.raw_text
          /\ cleaned_text' = in.cleaned_text
          /\ feedback_data' = in.feedback_data
          /\ tag_rates' = in.tag_rates
    /\ <<tag, raw_text>>' # <<tag, raw_text>>
    /\ UNCHANGED <<pc, pos_score, freq_score, tag_weights, learn_calls,
                   feedbackVars, pipelineVars, fileVars, call_log>>
    /\ UNCHANGED written

Called(fn, before, after, result) ==
    [fn |-> fn, args |-> before, args_after |-> after, result |-> result]

\* collect_feedback.py lines 56-96: reads tag and raw_text, returns a score
CallPositionScore ==
    /\ pc = "pure"
    /\ Len(call_log) < MaxCalls
    /\ pos_score' = calculate_position_score(tag, raw_text)
    /\ UNCHANGED <<pc, tag, raw_text, cleaned_text, freq_score, feedbackVars,
                   learnVars, pipelineVars, fileVars>>
    /\ call_log' = Append(call_log,
                          Called("calculate_position_score", <<tag, raw_text>>,
                                 <<tag', raw_text'>>, pos_score'))
    /\ UNCHANGED written

\* collect_feedback.py lines 100-112
CallFrequencyScore ==
    /\ pc = "pure"
    /\ Len(call_log) < MaxCalls
    /\ freq_score' = calculate_frequency_score(tag, cleaned_text)
    /\ UNCHANGED <<pc, tag, raw_text, cleaned_text, pos_score, feedbackVars,
                   learnVars, pipelineVars, fileVars>>
    /\ call_log' = Append(call_log,
                          Called("calculate_frequency_score",
                                 <<tag, cleaned_text>>,
                                 <<tag', cleaned_text'>>, freq_score'))
    /\ UNCHANGED written

\* learn_from_feedback.py lines 34-52: a new dict from the feedback list;
\* the caller keeps it as the rates it gives to derive_tag_weights
CallComputeTagStats ==
    /\ pc = "pure"
    /\ Len(call_log) < MaxCalls
    /\ tag_rates' = compute_tag_stats(feedback_data)
    /\ UNCHANGED <<pc, scorerVars, feedbackVars, feedback_data, tag_weights,
                   learn_calls, pipelineVars, fileVars>>
    /\ call_log' = Append(call_log,
                          Called("compute_tag_stats", <<feedback_data>>,
                                 <<feedback_data'>>, tag_rates'))
    /\ UNCHANGED written

\* learn_from_feedback.py lines 58-74: a new dict from the rates
CallDeriveTagWeights ==
    /\ pc = "pure"
    /\ Len(call_log) < MaxCalls
    /\ tag_weights' = derive_tag_weights(tag_rates)
    /\ UNCHANGED <<pc, scorerVars, feedbackVars, feedback_data, tag_rates,
                   learn_calls, pipelineVars, fileVars>>
    /\ call_log' = Append(call_log,
                          Called("derive_tag_weights", <<tag_rates>>,
                                 <<tag_rates'>>, tag_weights'))
    /\ UNCHANGED written

NextPure ==
    \/ NewInputs
    \/ CallPositionScore
    \/ CallFrequencyScore
    \/ CallComputeTagStats
    \/ CallDeriveTagWeights

SpecPure == InitPure /\ [][NextPure]_vars

\* what the caller holds apart from the value the call fn returns into
HeldApartFrom(fn) ==
    <<tag, raw_text, cleaned_text, feedback_data, files,
      IF fn = "calculate_position_score" THEN 0 ELSE pos_score,
      IF fn = "calculate_frequency_score" THEN 0 ELSE freq_score,
      IF fn = "compute_tag_stats" THEN <<>> ELSE tag_rates,
      IF fn = "derive_tag_weights" THEN <<>> ELSE tag_weights>>

C25_WitnessScorers ==
    /\ Len(call_log) = 3
    /\ call_log[1].fn = "calculate_position_score"
    /\ call_log[2].fn = "calculate_frequency_score"
    /\ call_log[3].fn = "calculate_position_score"
    /\ call_log[1].args = call_log[3].args
    /\ call_log[1].result = call_log[3].result
    /\ call_log[1].result > 0

---------------------------------------------------------------------------
(* The status of a record and the relevance_score recorded with it         *)

(* C26: in every record of simulate_feedback the status agrees with the    *)
(* recorded relevance_score, the combined score rounded to 4 decimal       *)
(* places: the status is "approved" exactly when relevance_score >= 0.35,  *)
(* so no record has relevance_score 0.35 and status "rejected".            *)
C26_StatusAgreesWithRecordedScore ==
    FeedbackSimulated =>
        \A ij \in RecordPlaces :
            ResultAt(ij).status = "approved"
                <=> ResultAt(ij).relevance_score * 10 >= APPROVAL_THRESHOLD

\* what the code does: the status is taken from the combined score before
\* it is rounded, so an approved record has at least 0.35 and a rejected
\* one at most 0.35
StatusFromUnroundedScore ==
    FeedbackSimulated =>
        \A ij \in RecordPlaces :
            /\ ResultAt(ij).status = StatusOf(CombinedAt(ij[1], ij[2]))
            /\ ResultAt(ij).status = "approved" =>
                  ResultAt(ij).relevance_score * 10 >= APPROVAL_THRESHOLD
            /\ ResultAt(ij).status = "rejected" =>
                  ResultAt(ij).relevance_score * 10 <= APPROVAL_THRESHOLD

\* tfidf_score 0.0291 for "api", twice in the text and in a header: the
\* combined score 0.34997 is rejected and recorded as 0.35
RejectedAtThreshold ==
    /\ FeedbackSimulated
    /\ \E ij \in RecordPlaces :
          /\ TagDataAt(ij) = [tag |-> api, tfidf_score |-> 291]
          /\ ScoredText(ij[1]) = DocHeader
          /\ CombinedAt(ij[1], ij[2]) = 34997
          /\ ResultAt(ij).status = "rejected"
          /\ ResultAt(ij).relevance_score = 3500

---------------------------------------------------------------------------
(* The text the pipeline scores and the text on disk                       *)

\* the feedback stage of this cycle has run
FeedbackCollected == pc = "feedback_saved"

\* the content of the file f of the documents folder
OriginalText(f) ==
    (CHOOSE d \in {documents[i] : i \in 1..Len(documents)} :
         d.filename = f).content

(* C27: along load_documents and simulate_feedback, the position score of  *)
(* every tag is calculate_position_score of the document's text as it is   *)
(* on disk; a tag in an all-upper-case header line within the first 10     *)
(* lines gets 0.8 although load_documents lower-cases the text.            *)
C27_PositionOfOriginalText ==
    FeedbackCollected =>
        \A ij \in RecordPlaces :
            \A t \in {TagDataAt(ij).tag}, f \in {tags_data[ij[1]].filename} :
                /\ calculate_position_score(t, ScoredText(ij[1]))
                       = calculate_position_score(t, OriginalText(f))
                /\ ResultAt(ij).relevance_score
                       \in RoundOutcomes(
                               CombinedScore(
                                   TagDataAt(ij).tfidf_score,
                                   calculate_frequency_score(
                                       t, clean_text(OriginalText(f))),
                                   calculate_position_score(
                                       t, OriginalText(f))))

\* what the code does: the score is that of the lower-cased text
PositionOfLoweredText ==
    FeedbackCollected =>
        \A ij \in RecordPlaces :
            \A t \in {TagDataAt(ij).tag}, f \in {tags_data[ij[1]].filename} :
                /\ ScoredText(ij[1]) = Lower(OriginalText(f))
                /\ ResultAt(ij).relevance_score
                       \in RoundOutcomes(
                               CombinedScore(
                                   TagDataAt(ij).tfidf_score,
                                   calculate_frequency_score(
                                       t, clean_text(OriginalText(f))),
                                   calculate_position_score(
                                       t, Lower(OriginalText(f)))))

\* "API X" as the second line: a header on disk, body text once lowered
UpperHeaderScoredAsBody ==
    /\ FeedbackCollected
    /\ \E ij \in RecordPlaces :
          /\ TagDataAt(ij).tag = api
          /\ OriginalText(tags_data[ij[1]].filename) = Join(<<L_intro, L_upper>>)
          /\ calculate_position_score(
                 api, OriginalText(tags_data[ij[1]].filename)) = POSITION_HEADER
          /\ calculate_position_score(api, ScoredText(ij[1])) = POSITION_BODY
          /\ ResultAt(ij).relevance_score = 6802

---------------------------------------------------------------------------
(* The weight table and the feedback of an emitted tag                     *)

\* weight tables another run of the same cycle could have loaded
OtherTables ==
    {<<>>, StaleTable, (api :> 13), (api :> 5) @@ (tax :> 13)}

\* the tags generate_tags emits for document idx when it has loaded table
TagsUnder(table, idx) ==
    generate_tags(documents, feature_names, tfidf_matrix, top_k,
                  table)[idx].tags

(* C28: the weight table decides only which terms generate_tags emits and  *)
(* in what order: the tfidf_score of an emitted tag is the unweighted      *)
(* score, so a tag emitted for a document under two weight tables gets the *)
(* same relevance_score and status from simulate_feedback in both runs.    *)
C28_FeedbackIndependentOfTable ==
    FeedbackCollected =>
        \A ij \in RecordPlaces :
            /\ TagDataAt(ij).tfidf_score
                   = tfidf_matrix[ij[1]][FeatureIndex(TagDataAt(ij).tag)]
            /\ \A table \in OtherTables :
                  \A n \in 1..Len(TagsUnder(table, ij[1])) :
                      \A q \in {TagsUnder(table, ij[1])[n]} :
                          q.tag = TagDataAt(ij).tag =>
                              /\ q.tfidf_score = TagDataAt(ij).tfidf_score
                              /\ ResultAt(ij) \in
                                    RecordOutcomes(
                                        q, ScoredText(ij[1]),
                                        clean_text(ScoredText(ij[1])))

\* the loaded table puts "therapist" before "tax", no table puts "tax"
\* first; "tax", weighted 0.5, has the feedback of its unweighted score
C28_Witness ==
    /\ FeedbackCollected
    /\ top_k = 2
    /\ loaded_weights = StaleTable
    /\ Len(tags_data) = 2
    /\ tfidf_matrix[2] = <<0, 7071, 7071>>
    /\ tags_data[2].tags[1].tag = therapist
    /\ tags_data[2].tags[2].tag = tax
    /\ tags_data[2].tags[2].adjusted_tfidf_score = 35355
    /\ TagsUnder(<<>>, 2)[1].tag = tax
    /\ feedback_results[2].feedback[2].tag = tax
    /\ feedback_results[2].feedback[2]
           \in RecordOutcomes([tag |-> tax, tfidf_score |-> 7071],
                              Lower(PipeDocB), clean_text(Lower(PipeDocB)))

---------------------------------------------------------------------------
(* Records with a status that is not "approved"                            *)

\* feedback_data without the record at the place ij
WithoutRecord(ij) ==
    [feedback_data EXCEPT ![ij[1]].feedback =
        SubSeq(@, 1, ij[2] - 1) \o SubSeq(@, ij[2] + 1, Len(@))]

\* the rate a is below the rate b
RateBelow(a, b) == a.num * b.den < b.num * a.den

(* C29: compute_tag_stats counts every record whose status is not exactly  *)
(* "approved" as a rejection: for each tag the approved and the rejected   *)
(* count add up to the number of records that carry the tag, letter case   *)
(* ignored, and a record with an unknown status lowers the approval rate   *)
(* of its tag.                                                             *)
C29_NotApprovedIsRejected ==
    RatesReady =>
        /\ DOMAIN tag_rates = {Lower(RecordAt(ij).tag) : ij \in FeedbackPlaces}
        /\ \A t \in DOMAIN tag_rates :
              \A counts \in {CountItems(<<>>, feedback_data)[t]} :
                  /\ counts.approved = Cardinality(ApprovedPlacesOfTag(t))
                  /\ counts.rejected
                         = Cardinality(PlacesOfTag(t) \ ApprovedPlacesOfTag(t))
                  /\ counts.approved + counts.rejected
                         = Cardinality(PlacesOfTag(t))
                  /\ tag_rates[t] = [num |-> Cardinality(ApprovedPlacesOfTag(t)),
                                     den |-> Cardinality(PlacesOfTag(t))]
        /\ \A ij \in FeedbackPlaces :
              RecordAt(ij).status \notin {"approved", "rejected"} =>
                  \A t \in {Lower(RecordAt(ij).tag)},
                     without \in {compute_tag_stats(WithoutRecord(ij))} :
                      /\ t \in DOMAIN without =>
                            ~RateBelow(without[t], tag_rates[t])
                      /\ (t \in DOMAIN without /\ without[t].num > 0) =>
                            RateBelow(tag_rates[t], without[t])

\* "api" approved once and "API" with the status "maybe": the rate 1/2
C29_Witness ==
    /\ pc = "rates_ready"
    /\ \E ij \in FeedbackPlaces :
          /\ RecordAt(ij) = [tag |-> API, status |-> "maybe",
                             relevance_score |-> 5000]
          /\ compute_tag_stats(WithoutRecord(ij))
                 = (api :> [num |-> 1, den |-> 1])
    /\ tag_rates = (api :> [num |-> 1, den |-> 2])

\* "Approved" is not "approved"
C29_WitnessCapital ==
    /\ pc = "rates_ready"
    /\ \E ij \in FeedbackPlaces : RecordAt(ij).status = "Approved"
    /\ tag_rates = (tax :> [num |-> 0, den |-> 1])

---------------------------------------------------------------------------
(* The result of run_pipeline and the files of one run                     *)

\* the output files in the order of the stages
StageFiles == <<tags_file, feedback_file, weights_file>>

\* run_pipeline has returned
RunReturned == pc = "done"

(* C30: run_pipeline always returns, with the status "success" or          *)
(* "error"; in one run tags.json is written before feedback.json and       *)
(* feedback.json before tag_weights.json; "success" is returned only after *)
(* all three were written; when a stage fails, as when no documents are    *)
(* found, the result is "error" and no file of that stage or of a later    *)
(* one is written in that run.                                             *)
C30_StagesInOrder ==
    /\ Len(written) <= 3
    /\ written = SubSeq(StageFiles, 1, Len(written))
    /\ RunReturned <=> run_status \in {"success", "error"}
    /\ ~RunReturned => run_status = ""
    /\ run_status = "success" => written = StageFiles
    /\ run_status = "error" => Len(written) < 3
    /\ (RunReturned /\ documents = <<>>) =>
          /\ run_status = "error"
          /\ written = <<>>
    /\ \A n \in 1..Len(written) :
          /\ files[written[n]].exists
          /\ IsJsonArray(files[written[n]].text)
                 \/ IsJsonObject(files[written[n]].text)

\* a run that found no documents after a run that succeeded: "error",
\* nothing written by it, the files of the run before still there
C30_Witness ==
    /\ RunReturned
    /\ cycles = 2
    /\ documents = <<>>
    /\ run_status = "error"
    /\ written = <<>>
    /\ files[tags_file].exists
    /\ files[weights_file].exists

\* a run that succeeded
C30_WitnessSuccess ==
    /\ RunReturned
    /\ run_status = "success"
    /\ written = <<tags_file, feedback_file, weights_file>>
    /\ output_dir = "results"

===========================================================================
